---------------------------- MODULE Spec2Model ----------------------------
(***************************************************************************)
(* Thermal tank-image analysis: interface detection (ThermalAnalyzer,      *)
(* src/steps/2_image_proccessing.py) and realtime reliability scoring      *)
(* (RealtimeThermalPredictor, src/steps/5_realtime_predictor.py).          *)
(*                                                                         *)
(* Number representation.  Python floats are modelled exactly:             *)
(*   - a band mean, a ratio or any other float is a rational               *)
(*     [n |-> numerator, d |-> denominator] with d > 0;                    *)
(*   - a pair score of _score_temperature_sequence is an integer number of *)
(*     TENTHS (5 -> 50, 2.5 -> 25, -100 -> -1000), so that weight / 2 is   *)
(*     exact and round(score / 25, 2) is a real rounding;                  *)
(*   - thermal_interface_confidence is an integer number of HUNDREDTHS.    *)
(* An image is a sequence of rows, each row of uniform brightness, so the  *)
(* mean of a band of rows is the mean of its row values.  Python row index *)
(* i is element i + 1 of the sequence.                                     *)
(***************************************************************************)
EXTENDS Integers, Sequences, FiniteSets, TLC

VARIABLES
    pc,          \* position inside ThermalAnalyzer.process_image
    img_height,  \* self.img_height
    normalize,   \* self.normalize
    file,        \* what img_path names on disk: "missing", "corrupt", "ok"
    img,         \* local img of process_image
    gradient,    \* summary of np.gradient(temp_profile_smooth)
    peaks_neg,   \* find_peaks(...)[0]: rows of the peaks, ascending
    props,       \* find_peaks(...)[1]['prominences']
    top,         \* selected pair and its score (tenths)
    bottom,
    score,
    layers,      \* result of _calculate_layers
    result,      \* the record process_image returned
    called,      \* private methods process_image has entered so far
    call,        \* pure-function harness: the call being evaluated
    ret,         \* pure-function harness: its return value
    reference_profiles,  \* RealtimeThermalPredictor.reference_profiles
    stable_rows, \* success/estable rows of reference_data (-1: no reference_data)
    features,    \* argument of calculate_reliability_score
    reliability, \* its return value, in points
    category,    \* result of classify_reliability_category
    ppc,         \* position of the scoring call
    scores,      \* the sub-scores calculate_reliability_score collected
    image_path,  \* argument of predict_new_image: the file name it ends with
    prediction,  \* the dict predict_new_image returned
    invoked,     \* methods of the predictor predict_new_image has entered
    calls,       \* frames of the scoring calls running concurrently
    batch_df,    \* the DataFrame classify_batches works on
    sigma_threshold,  \* ReliabilityAnalyzer.sigma_threshold
    history,     \* the DataFrame the statistical steps work on
    correlations,     \* result of correlate_reliability
    anova,       \* result of validate_hypothesis_anova
    report,      \* result of generate_comparative_report
    dataset,     \* main: the rows of df, each by what its imagen_path names
    thermal_features, \* main: the list the batch loop appends to
    row_idx,     \* main: the row the batch loop is at (0: before the first)
    df_final,    \* main: pd.concat([df, thermal_df], axis=1)
    session_state,    \* app: st.session_state, a dict
    wpc,         \* app: what the last script run of the session rendered
    audit        \* app: the events log_audit_event has logged

avars == <<pc, img_height, normalize, file, img, gradient, peaks_neg, props,
           top, bottom, score, layers, result, called>>
avars_but_pc == <<img_height, normalize, file, img, gradient, peaks_neg, props,
                  top, bottom, score, layers, result, called>>
fvars == <<call, ret>>
pvars == <<reference_profiles, stable_rows, features, reliability, category, ppc, scores>>
rvars == <<image_path, prediction, invoked>>
cvars == <<calls>>
bvars == <<batch_df, sigma_threshold>>
svars == <<history, correlations, anova, report>>
mvars == <<dataset, thermal_features, row_idx, df_final>>
wvars == <<session_state, wpc, audit>>
xvars == <<image_path, prediction, invoked, calls, batch_df, sigma_threshold, history, correlations, anova, report,
           dataset, thermal_features, row_idx, df_final, session_state, wpc, audit>>
vars == <<pc, img_height, normalize, file, img, gradient, peaks_neg, props,
          top, bottom, score, layers, result, called, call, ret,
          reference_profiles, stable_rows, features, reliability, category, ppc,
          scores, image_path, prediction, invoked, calls, batch_df, sigma_threshold, history,
          correlations, anova, report, dataset, thermal_features, row_idx, df_final,
          session_state, wpc, audit>>

----------------------------------------------------------------------------
(* Bounds of the model *)

\* largest image height (rows) explored
MaxH == 20

\* brightness values a raw image band can take (0..255 scale)
Levels == {10, 90, 150, 220}

\* band means, in halves, the pure-function harness feeds to the scorer
TempGrid == {0, 100, 139, 140, 200, 259, 260, 261, 280, 340, 359, 360, 361, 380, 381, 400, 510, 511}

\* pair scores (tenths) the pure-function harness feeds to the confidence formula
ScoreGrid == {-1000} \cup (-10..215)

\* most rows of a reference DataFrame
MaxRows == 3

\* feature values (hundredths) in the rows of a reference DataFrame
HistVals == {50, 75}

\* image height of the analyzer a predictor owns (stands for img_height=480)
RealtimeH == 18

\* scoring calls running at the same time on one predictor
NumCalls == 2

\* most rows of a DataFrame given to classify_batches
MaxBatchRows == 3

\* sigma values (tenths: 0.0, 0.1, 0.2) in the rows of that DataFrame
SigmaVals == {0, 1, 2}

\* most rows of one kind in a DataFrame given to the statistical steps
MaxGroup == 5

\* height of the four-band images _select_valid_interfaces is applied to
SelectH == 34

\* brightness of the four bands of those images, top to bottom
SelectLevels == {<<200, 185, 95, 40>>, <<220, 150, 90, 10>>}

\* most rows of a DataFrame given to compute_sigma
MaxSigmaRows == 4

\* largest rolling window of a ReliabilityAnalyzer (the default is 5)
MaxWindow == 5

\* values of an operating signal; a cell can also be null
SignalVals == {0, 1, 3}

\* most events a web session logs before it stops logging in and out
MaxAudit == 3

\* most rows of the dataset main loops over
MaxDataset == 2

\* most rows of that dataset whose image file can be decoded
MaxDecodable == 1

\* image height of the analyzer main creates (stands for img_height=512)
BatchH == 18

\* durations (seconds) a measured interval can take; the limit is 5.0
Durations == {1, 6}

\* feature values (hundredths) of a record to score
NewVals == {50, 51, 76}

----------------------------------------------------------------------------
(* Exact rational arithmetic standing for Python floats *)

Rat(n, d) == [n |-> n, d |-> d]

RatLt(a, b) == a.n * b.d < b.n * a.d

RatLe(a, b) == a.n * b.d <= b.n * a.d

RatEq(a, b) == a.n * b.d = b.n * a.d

\* a - b > k for an integer k
RatDiffGt(a, b, k) == a.n * b.d - b.n * a.d > k * a.d * b.d

RECURSIVE SumSeq(_)
SumSeq(s) == IF s = <<>> THEN 0 ELSE Head(s) + SumSeq(Tail(s))

\* the largest / smallest element of a non-empty sequence of integers
SeqMax(s) == CHOOSE v \in {s[i] : i \in DOMAIN s} : \A i \in DOMAIN s : s[i] <= v

SeqMin(s) == CHOOSE v \in {s[i] : i \in DOMAIN s} : \A i \in DOMAIN s : s[i] >= v

\* x / y rounded to the nearest integer (x >= 0, y > 0)
RoundDiv(x, y) == (2 * x + y) \div (2 * y)

----------------------------------------------------------------------------
(* ThermalAnalyzer: constants *)

\* self.TEMP_RANGES
TEMP_RANGES ==
    [aire |-> <<0, 70>>, agua |-> <<70, 130>>,
     emulsion |-> <<130, 180>>, crudo |-> <<180, 255>>]

\* find_peaks(..., distance=15)
PeakDistance == 15

\* cv2.threshold(img, 20, 255, cv2.THRESH_BINARY)
ColdThreshold == 20

\* idx_sorted[:min(6, len(peaks))]
MaxCandidates == 6

\* keys of a feature record holding Python ints (or floats of integral value)
IntKeys ==
    {"thermal_interface_top_px", "thermal_interface_bottom_px",
     "thermal_crudo_px", "thermal_emulsion_px", "thermal_agua_px"}

\* keys of a feature record holding Python floats
FloatKeys ==
    {"thermal_interface_confidence",
     "thermal_crudo_ratio", "thermal_emulsion_ratio", "thermal_agua_ratio",
     "thermal_temp_crudo_mean", "thermal_temp_emulsion_mean",
     "thermal_temp_agua_mean", "thermal_gradient_max", "thermal_gradient_std"}

----------------------------------------------------------------------------
(* ThermalAnalyzer: private methods *)

\* np.mean(r) if r.size > 0 else 0
RegionMean(r) == IF Len(r) > 0 THEN Rat(SumSeq(r), Len(r)) ELSE Rat(0, 1)

\* img[:top, :], img[top:bottom, :], img[bottom:, :]
_get_regions(image, t, b) ==
    <<SubSeq(image, 1, t), SubSeq(image, t + 1, b), SubSeq(image, b + 1, Len(image))>>

_check_range_heavy(temp, layer, weight) ==
    LET lo == TEMP_RANGES[layer][1]
        hi == TEMP_RANGES[layer][2]
    IN  IF RatLe(Rat(lo, 1), temp) /\ RatLe(temp, Rat(hi, 1)) THEN 2 * weight
        ELSE IF RatLt(Rat(hi, 1), temp) THEN weight
        ELSE -weight

\* weight is in tenths; returns tenths
_check_range(temp, layer, weight) ==
    LET lo == TEMP_RANGES[layer][1]
        hi == TEMP_RANGES[layer][2]
    IN  IF RatLe(Rat(lo, 1), temp) /\ RatLe(temp, Rat(hi, 1)) THEN weight
        ELSE IF RatLt(Rat(hi, 1), temp) THEN weight \div 2
        ELSE -(weight \div 2)

RangeAndBonusScore_inclusive(t, m, b) ==
    _check_range(t, "crudo", 50) + _check_range(m, "emulsion", 50)
    + _check_range(b, "agua", 50)
    + (IF ~RatDiffGt(m, t, -10) THEN 30 ELSE 0)
    + (IF ~RatDiffGt(b, m, -10) THEN 30 ELSE 0)

\* the score (tenths) of an ordered sequence: lines 349-362
RangeAndBonusScore(t, m, b) ==
    _check_range(t, "crudo", 50) + _check_range(m, "emulsion", 50)
    + _check_range(b, "agua", 50)
    + (IF RatDiffGt(t, m, 10) THEN 30 ELSE 0)
    + (IF RatDiffGt(m, b, 10) THEN 30 ELSE 0)

_score_temperature_sequence_weak(t, m, b) ==
    IF ~(RatLe(m, t) /\ RatLe(b, m)) THEN -1000 ELSE RangeAndBonusScore(t, m, b)

_score_temperature_sequence(t, m, b) ==
    IF ~(RatLt(m, t) /\ RatLt(b, m)) THEN -1000 ELSE RangeAndBonusScore(t, m, b)

\* np.argsort(prominences)[::-1]: indices by descending prominence
ArgsortDesc(prom) ==
    LET n == Len(prom)
        rank(i) == Cardinality({j \in 1..n : prom[j] > prom[i]}) + 1
    IN  [k \in 1..n |-> CHOOSE i \in 1..n : rank(i) = k]

\* peaks[idx_sorted[:min(6, len(peaks))]]
TopPeaks(peaks, prom) ==
    LET idx == ArgsortDesc(prom)
        m == IF Len(peaks) < MaxCandidates THEN Len(peaks) ELSE MaxCandidates
    IN  [k \in 1..m |-> peaks[idx[k]]]

\* body of the inner loop for one pair (t, b): lines 294-306
TryPair(image, t, b, best) ==
    IF t >= b THEN best
    ELSE LET regions == _get_regions(image, t, b)
             s == _score_temperature_sequence(RegionMean(regions[1]),
                      RegionMean(regions[2]), RegionMean(regions[3]))
         IN  IF s > best.score THEN [t |-> t, b |-> b, score |-> s] ELSE best

RECURSIVE InnerLoop(_, _, _, _, _)
InnerLoop(image, tp, i, j, best) ==
    IF j > Len(tp) THEN best
    ELSE InnerLoop(image, tp, i, j + 1, TryPair(image, tp[i], tp[j], best))

RECURSIVE OuterLoop(_, _, _, _)
OuterLoop(image, tp, i, best) ==
    IF i > Len(tp) THEN best
    ELSE OuterLoop(image, tp, i + 1, InnerLoop(image, tp, i, i + 1, best))

InitialBest_swapped(image) ==
    LET H == Len(image)
    IN  [t |-> (2 * H) \div 3, b |-> H \div 3, score |-> -10]

\* best_score = -1, best_pair = (H // 3, 2 * H // 3)
InitialBest(image) ==
    LET H == Len(image)
    IN  [t |-> H \div 3, b |-> (2 * H) \div 3, score |-> -10]

_select_valid_interfaces(image, peaks, prom) ==
    OuterLoop(image, TopPeaks(peaks, prom), 1, InitialBest(image))

_calculate_layers_swapped(image, t, b) ==
    LET H == Len(image)
    IN  [crudo_px |-> t, emulsion_px |-> t - b, agua_px |-> H - b,
         crudo_ratio |-> Rat(t, H), emulsion_ratio |-> Rat(t - b, H),
         agua_ratio |-> Rat(H - b, H)]

_calculate_layers(image, t, b) ==
    LET H == Len(image)
    IN  [crudo_px |-> t, emulsion_px |-> b - t, agua_px |-> H - b,
         crudo_ratio |-> Rat(t, H), emulsion_ratio |-> Rat(b - t, H),
         agua_ratio |-> Rat(H - b, H)]

Confidence_unguarded(s) == (4 * s + 5) \div 10

\* round(score / 25.0, 2) if score > 0 else 0.0, in hundredths; s in tenths:
\* 100 * (s / 10) / 25 = 4 s / 10, whose fraction is never one half
Confidence(s) == IF s > 0 THEN (4 * s + 5) \div 10 ELSE 0

_extract_features(image, grad, t, b, lay, s) ==
    LET regions == _get_regions(image, t, b)
    IN  [thermal_crudo_px |-> lay.crudo_px,
         thermal_emulsion_px |-> lay.emulsion_px,
         thermal_agua_px |-> lay.agua_px,
         thermal_crudo_ratio |-> lay.crudo_ratio,
         thermal_emulsion_ratio |-> lay.emulsion_ratio,
         thermal_agua_ratio |-> lay.agua_ratio,
         thermal_temp_crudo_mean |-> RegionMean(regions[1]),
         thermal_temp_emulsion_mean |-> RegionMean(regions[2]),
         thermal_temp_agua_mean |-> RegionMean(regions[3]),
         thermal_interface_top_px |-> t,
         thermal_interface_bottom_px |-> b,
         thermal_interface_confidence |-> Rat(Confidence(s), 100),
         thermal_gradient_max |-> grad.max,
         thermal_gradient_std |-> grad.std,
         status |-> "success"]

_default_output_short(status) ==
    [status |-> status,
     thermal_interface_top_px |-> 0,
     thermal_interface_bottom_px |-> 0,
     thermal_interface_confidence |-> Rat(0, 1)]

_default_output(status) ==
    [status |-> status,
     thermal_interface_top_px |-> 0,
     thermal_interface_bottom_px |-> 0,
     thermal_interface_confidence |-> Rat(0, 1),
     thermal_crudo_px |-> 0,
     thermal_emulsion_px |-> 0,
     thermal_agua_px |-> 0,
     thermal_crudo_ratio |-> Rat(0, 1),
     thermal_emulsion_ratio |-> Rat(0, 1),
     thermal_agua_ratio |-> Rat(0, 1),
     thermal_temp_crudo_mean |-> Rat(0, 1),
     thermal_temp_emulsion_mean |-> Rat(0, 1),
     thermal_temp_agua_mean |-> Rat(0, 1),
     thermal_gradient_max |-> Rat(0, 1),
     thermal_gradient_std |-> Rat(0, 1)]

----------------------------------------------------------------------------
(* ThermalAnalyzer: loading and preprocessing *)

\* a raw image of height H: three horizontal bands of brightness lv[1..3]
StepImage(H, lv) ==
    [i \in 1..H |-> IF i <= H \div 3 THEN lv[1]
                    ELSE IF i <= (2 * H) \div 3 THEN lv[2] ELSE lv[3]]

\* what cv2.imread + cv2.resize can return for a decodable file
RawImages(H) == {StepImage(H, lv) : lv \in Levels \X Levels \X Levels}

\* cv2.GaussianBlur(img, (3, 3), 0): kernel (1 2 1)/4 down the rows,
\* border reflected without repeating the edge row (BORDER_REFLECT_101)
GaussianBlur(image) ==
    LET H == Len(image)
        prev(i) == IF i = 1 THEN image[2] ELSE image[i - 1]
        next(i) == IF i = H THEN image[H - 1] ELSE image[i + 1]
    IN  [i \in 1..H |-> RoundDiv(prev(i) + 2 * image[i] + next(i), 4)]

\* cv2.threshold(..., THRESH_BINARY) then cv2.bitwise_and(img, mask)
RemoveCold(image) ==
    [i \in 1..Len(image) |-> IF image[i] > ColdThreshold THEN image[i] ELSE 0]

\* cv2.normalize(img, None, 0, 255, cv2.NORM_MINMAX)
NormalizeMinMax(image) ==
    LET lo == SeqMin(image)
        hi == SeqMax(image)
    IN  [i \in 1..Len(image) |->
            IF hi = lo THEN 0 ELSE RoundDiv((image[i] - lo) * 255, hi - lo)]

_preprocess_image(image, norm) ==
    LET masked == RemoveCold(GaussianBlur(image))
    IN  IF norm THEN NormalizeMinMax(masked) ELSE masked

----------------------------------------------------------------------------
(* scipy.signal.find_peaks on the negated gradient: its contract *)

\* ascending sequences of rows in lo..hi, neighbours at least PeakDistance apart
RECURSIVE PeakSeqs(_, _)
PeakSeqs(lo, hi) ==
    {<<>>} \cup UNION {{<<p>> \o s : s \in PeakSeqs(p + PeakDistance, hi)} : p \in lo..hi}

\* prominences of n peaks, as distinct ranks (1 = least prominent)
Prominences(n) == {q \in [1..n -> 1..n] : \A i, j \in 1..n : i # j => q[i] # q[j]}

IsUniform(image) == \A i \in DOMAIN image : image[i] = image[1]

\* (max |gradient|, std of gradient) of a profile that is not flat
GradientSummaries == {[max |-> Rat(9, 2), std |-> Rat(3, 2)], [max |-> Rat(40, 1), std |-> Rat(11, 1)]}

\* a flat profile has a zero gradient and no peak; otherwise the peaks are
\* interior rows (never the first or last sample), PeakDistance apart
FindPeaksResults(image) ==
    IF IsUniform(image)
    THEN {[peaks |-> <<>>, prom |-> <<>>, grad |-> [max |-> Rat(0, 1), std |-> Rat(0, 1)]]}
    ELSE UNION {{[peaks |-> p, prom |-> q, grad |-> g] :
                    q \in Prominences(Len(p)), g \in GradientSummaries} :
                p \in PeakSeqs(1, Len(image) - 2)}

----------------------------------------------------------------------------
(* ThermalAnalyzer.process_image, one action per statement group *)

NoLayers == _calculate_layers(<<0>>, 0, 0)

NoResult == [status |-> "none"]

\* pc = "row": the body of main's batch loop is about to run for one row
\* pc = "entry": process_image is called directly with a path
AInit ==
    /\ pc \in {"row", "entry"}
    /\ img_height \in 2..MaxH
    /\ normalize \in BOOLEAN
    /\ file \in {"no_path", "missing", "corrupt", "ok"}
    /\ pc = "entry" => file # "no_path"
    /\ img = <<>>
    /\ gradient = [max |-> Rat(0, 1), std |-> Rat(0, 1)]
    /\ peaks_neg = <<>>
    /\ props = <<>>
    /\ top = 0
    /\ bottom = 0
    /\ score = 0
    /\ layers = NoLayers
    /\ result = NoResult
    /\ called = {}

\* pd.notna(row['imagen_path']) and os.path.exists(row['imagen_path'])
HasImage(f) == f \notin {"no_path", "missing"}

\* one iteration of main's loop up to the call of process_image
main_row ==
    /\ pc = "row"
    /\ IF HasImage(file)
       THEN /\ pc' = "entry"
            /\ UNCHANGED <<result, called>>
       ELSE /\ result' = _default_output("no_image")
            /\ called' = called \cup {"_default_output"}
            /\ pc' = "done"
    /\ UNCHANGED <<img_height, normalize, file, img, gradient, peaks_neg, props,
                   top, bottom, score, layers, call, ret, pvars, xvars>>

PathExists_unchecked(f) == TRUE

\* os.path.exists(img_path)
PathExists(f) == f # "missing"

\* if not os.path.exists(img_path): return self._default_output("not_found")
process_image_entry ==
    /\ pc = "entry"
    /\ IF ~PathExists(file)
       THEN /\ result' = _default_output("not_found")
            /\ called' = called \cup {"process_image", "_default_output"}
            /\ pc' = "done"
       ELSE /\ pc' = "load"
            /\ called' = called \cup {"process_image"}
            /\ UNCHANGED result
    /\ UNCHANGED <<img_height, normalize, file, img, gradient, peaks_neg, props,
                   top, bottom, score, layers, call, ret, pvars, xvars>>

\* img = self._load_image(img_path): cv2.imread answers None for a file it
\* cannot decode (or cannot open) and _load_image raises ValueError
load_image ==
    /\ pc = "load"
    /\ IF file = "ok"
       THEN /\ img' \in RawImages(img_height)
            /\ pc' = "preprocess"
       ELSE /\ pc' = "except"
            /\ UNCHANGED img
    /\ called' = called \cup {"_load_image"}
    /\ UNCHANGED <<img_height, normalize, file, gradient, peaks_neg, props,
                   top, bottom, score, layers, result, call, ret, pvars, xvars>>

\* img = self._preprocess_image(img)
preprocess_image ==
    /\ pc = "preprocess"
    /\ img' = _preprocess_image(img, normalize)
    /\ called' = called \cup {"_preprocess_image"}
    /\ pc' = "detect"
    /\ UNCHANGED <<img_height, normalize, file, gradient, peaks_neg, props,
                   top, bottom, score, layers, result, call, ret, pvars, xvars>>

TooFewPeaks_one(peaks) == Len(peaks) < 1

\* if len(peaks_neg) < 2
TooFewPeaks(peaks) == Len(peaks) < 2

\* profile, gradient, find_peaks and the len(peaks_neg) < 2 return
detect_peaks ==
    /\ pc = "detect"
    /\ \E r \in FindPeaksResults(img) :
        /\ gradient' = r.grad
        /\ peaks_neg' = r.peaks
        /\ props' = r.prom
        /\ IF TooFewPeaks(r.peaks)
           THEN /\ result' = _default_output("no_interfaces_detected")
                /\ called' = called \cup {"find_peaks", "_default_output"}
                /\ pc' = "done"
           ELSE /\ pc' = "select"
                /\ called' = called \cup {"find_peaks"}
                /\ UNCHANGED result
    /\ UNCHANGED <<img_height, normalize, file, img, top, bottom, score, layers,
                   call, ret, pvars, xvars>>

\* top, bottom, score = self._select_valid_interfaces(img, peaks_neg, props)
select_interfaces ==
    /\ pc = "select"
    /\ LET best == _select_valid_interfaces(img, peaks_neg, props)
       IN  /\ top' = best.t
           /\ bottom' = best.b
           /\ score' = best.score
    /\ called' = called \cup {"_select_valid_interfaces"}
    /\ pc' = "layers"
    /\ UNCHANGED <<img_height, normalize, file, img, gradient, peaks_neg, props,
                   layers, result, call, ret, pvars, xvars>>

\* layers = self._calculate_layers(img, top, bottom)
calculate_layers ==
    /\ pc = "layers"
    /\ layers' = _calculate_layers(img, top, bottom)
    /\ called' = called \cup {"_calculate_layers"}
    /\ pc' = "features"
    /\ UNCHANGED <<img_height, normalize, file, img, gradient, peaks_neg, props,
                   top, bottom, score, result, call, ret, pvars, xvars>>

\* features = self._extract_features(...); return features
extract_features ==
    /\ pc = "features"
    /\ result' = _extract_features(img, gradient, top, bottom, layers, score)
    /\ called' = called \cup {"_extract_features"}
    /\ pc' = "done"
    /\ UNCHANGED <<img_height, normalize, file, img, gradient, peaks_neg, props,
                   top, bottom, score, layers, call, ret, pvars, xvars>>

\* positions inside the try block of process_image
TryBlock == {"load", "preprocess", "detect", "select", "layers", "features"}

\* a statement of the try block raises (a cv2 / numpy / scipy error, MemoryError)
raise_exception ==
    /\ pc \in TryBlock
    /\ pc' = "except"
    /\ UNCHANGED <<img_height, normalize, file, img, gradient, peaks_neg, props,
                   top, bottom, score, layers, result, called, call, ret, pvars, xvars>>

HandlerStatus_typo == "procesing_error"

\* the tag of line 128
HandlerStatus == "processing_error"

\* except Exception as e: ...; return self._default_output("processing_error")
except_handler ==
    /\ pc = "except"
    /\ result' = _default_output(HandlerStatus)
    /\ called' = called \cup {"_default_output"}
    /\ pc' = "done"
    /\ UNCHANGED <<img_height, normalize, file, img, gradient, peaks_neg, props,
                   top, bottom, score, layers, call, ret, pvars, xvars>>

ANext ==
    \/ main_row
    \/ process_image_entry
    \/ raise_exception
    \/ except_handler
    \/ load_image
    \/ preprocess_image
    \/ detect_peaks
    \/ select_interfaces
    \/ calculate_layers
    \/ extract_features

\* the analyzer at rest while a pure function is exercised
AIdle ==
    /\ pc = "off"
    /\ img_height = 2
    /\ normalize = TRUE
    /\ file = "no_path"
    /\ img = <<>>
    /\ gradient = [max |-> Rat(0, 1), std |-> Rat(0, 1)]
    /\ peaks_neg = <<>>
    /\ props = <<>>
    /\ top = 0
    /\ bottom = 0
    /\ score = 0
    /\ layers = NoLayers
    /\ result = NoResult
    /\ called = {}

NoCall == [fn |-> "none", args |-> <<>>]

\* predict_new_image, the concurrent scoring calls, classify_batches and the
\* statistical steps at rest while another component is exercised
RIdle == image_path = "" /\ prediction = <<>> /\ invoked = {}

CIdle == calls = <<>>

BIdle == batch_df = <<>> /\ sigma_threshold = "off"

SIdle == history = <<>> /\ correlations = <<>> /\ anova = <<>> /\ report = <<>>

MIdle == dataset = <<>> /\ thermal_features = <<>> /\ row_idx = -1 /\ df_final = <<>>

WIdle == session_state = <<>> /\ wpc = "off" /\ audit = <<>>

XIdle == RIdle /\ CIdle /\ BIdle /\ SIdle /\ MIdle /\ WIdle

----------------------------------------------------------------------------
(* RealtimeThermalPredictor (src/steps/5_realtime_predictor.py).            *)
(* A feature value is [nan |-> BOOLEAN, v |-> hundredths]; a reliability    *)
(* score is a rational number of points; a sub-score is an integer number   *)
(* of hundredths of a point.                                                *)

NaN == [nan |-> TRUE, v |-> 0]

Val(x) == [nan |-> FALSE, v |-> x]

RECURSIVE GCD(_, _)
GCD(a, b) == IF b = 0 THEN a ELSE GCD(b, a % b)

\* n / d in lowest terms (n >= 0, d > 0)
RatNorm(n, d) == LET g == GCD(n, d) IN Rat(n \div g, d \div g)

\* thermal_vars of _build_reference_profiles
ThermalVars ==
    {"thermal_gradient_max", "thermal_gradient_std", "thermal_emulsion_ratio",
     "thermal_agua_ratio", "thermal_crudo_ratio", "thermal_interface_confidence"}

KeyVars_equal ==
    <<<<"thermal_gradient_max", 20>>, <<"thermal_interface_confidence", 20>>,
      <<"thermal_emulsion_ratio", 20>>, <<"thermal_agua_ratio", 20>>,
      <<"thermal_crudo_ratio", 20>>>>

\* key_vars of calculate_reliability_score, weights in hundredths
KeyVars ==
    <<<<"thermal_gradient_max", 25>>, <<"thermal_interface_confidence", 30>>,
      <<"thermal_emulsion_ratio", 20>>, <<"thermal_agua_ratio", 15>>,
      <<"thermal_crudo_ratio", 10>>>>

KeyVarNames == {KeyVars[i][1] : i \in DOMAIN KeyVars}

\* the column sets of the reference DataFrames explored
ColumnChoices ==
    {ThermalVars \cup {"status", "batch_type"},
     ThermalVars \cup {"status"},
     {"status", "batch_type", "thermal_gradient_max", "thermal_interface_confidence"},
     {"status", "batch_type", "thermal_interface_confidence"},
     {"status", "batch_type"}}

\* a row: its status, its batch_type and the value of its thermal columns
HistRows ==
    [status : {"success", "not_found"}, batch_type : {"estable", "turbulento"},
     val : {NaN} \cup {Val(x) : x \in HistVals}]

\* the reference_data a predictor can be constructed with (given = FALSE: None)
ReferenceData ==
    {[given |-> FALSE, columns |-> {}, rows |-> <<>>]}
    \cup {[given |-> TRUE, columns |-> c, rows |-> r] :
            c \in ColumnChoices, r \in UNION {[1..k -> HistRows] : k \in 0..MaxRows}}

\* (df['status'] == 'success') & (df.get('batch_type', pd.Series()) == 'estable')
IsStableRow(columns, r) ==
    /\ r.status = "success"
    /\ "batch_type" \in columns
    /\ r.batch_type = "estable"

\* df_stable
StableRows(df) == SelectSeq(df.rows, LAMBDA r : IsStableRow(df.columns, r))

\* df_stable[var].dropna()
DropNa(rows) == SelectSeq(rows, LAMBDA r : ~r.val.nan)

RECURSIVE SumVals(_)
SumVals(rows) == IF rows = <<>> THEN 0 ELSE Head(rows).val.v + SumVals(Tail(rows))

RECURSIVE SumSqDev(_, _, _)
SumSqDev(rows, n, total) ==
    IF rows = <<>> THEN 0
    ELSE (n * Head(rows).val.v - total) * (n * Head(rows).val.v - total)
         + SumSqDev(Tail(rows), n, total)

\* values.mean()
SeriesMean(values) == Rat(SumVals(values), Len(values))

\* values.std() (ddof = 1): NaN for a single value, else the square root of
\* the variance kept in sq
SeriesStd(values) ==
    LET n == Len(values)
    IN  IF n < 2 THEN [nan |-> TRUE, sq |-> Rat(0, 1)]
        ELSE [nan |-> FALSE,
              sq |-> RatNorm(SumSqDev(values, n, SumVals(values)), n * n * (n - 1))]

\* self.reference_profiles after __init__(reference_data); median, q25 and q75
\* are stored too and read by no operation
_build_reference_profiles(df) ==
    LET values == DropNa(StableRows(df))
        stored == IF Len(StableRows(df)) = 0 \/ Len(values) = 0 THEN {}
                  ELSE ThermalVars \cap df.columns
    IN  [var \in stored |-> [mean |-> SeriesMean(values), std |-> SeriesStd(values)]]

\* the records calculate_reliability_score is called with: each weighted
\* feature is absent, null or a number
FeatureRecords ==
    UNION {[present -> {NaN} \cup {Val(x) : x \in NewVals}] : present \in SUBSET KeyVarNames}

\* floor(10000 * exp(-k / 20)), k = 0..120
ExpTable ==
    <<10000, 9512, 9048, 8607, 8187, 7788, 7408, 7046, 6703, 6376, 6065,
      5769, 5488, 5220, 4965, 4723, 4493, 4274, 4065, 3867, 3678, 3499,
      3328, 3166, 3011, 2865, 2725, 2592, 2465, 2345, 2231, 2122, 2018,
      1920, 1826, 1737, 1652, 1572, 1495, 1422, 1353, 1287, 1224, 1164,
      1108, 1053, 1002, 953, 907, 862, 820, 780, 742, 706, 672, 639, 608,
      578, 550, 523, 497, 473, 450, 428, 407, 387, 368, 350, 333, 317,
      301, 287, 273, 259, 247, 235, 223, 212, 202, 192, 183, 174, 165,
      157, 149, 142, 135, 129, 122, 116, 111, 105, 100, 95, 90, 86, 82,
      78, 74, 70, 67, 64, 60, 57, 55, 52, 49, 47, 45, 42, 40, 38, 36, 35,
      33, 31, 30, 28, 27, 26, 24>>

\* floor(10 z) for z * z = num / den, counted up from k
RECURSIVE FloorTenRoot(_, _, _)
FloorTenRoot(num, den, k) ==
    IF (k + 1) * (k + 1) * den > 100 * num \/ k >= Len(ExpTable) THEN k
    ELSE FloorTenRoot(num, den, k + 1)

\* 100.0 * np.exp(-z_score / 2.0) clamped to [0, 100], in hundredths, for
\* z_score * z_score = num / den; exp is evaluated at z_score rounded down to
\* a tenth, its value rounded down to the hundredth (0 beyond z_score = 12)
ExpScore(num, den) ==
    LET k == FloorTenRoot(num, den, 0)
    IN  IF k >= Len(ExpTable) THEN 0 ELSE ExpTable[k + 1]

\* if ref_std == 0 (line 256): "direct" is the comparison of line 258,
\* "zscore" the division and exponential of lines 261-266
Branch(ref) == IF ~ref.std.nan /\ ref.std.sq.n = 0 THEN "direct" ELSE "zscore"

SubScore_inclusive(value, ref) ==
    LET m == ref.mean
        dev == value * m.d - m.n
        absdev == IF dev < 0 THEN -dev ELSE dev
        whole == absdev \div m.d
    IN  IF Branch(ref) = "direct"
        THEN (IF absdev <= m.d THEN 10000 ELSE 5000)
        ELSE IF ref.std.nan
        THEN 10000
        ELSE IF whole * whole * ref.std.sq.d >= 147 * ref.std.sq.n
        THEN 0
        ELSE LET z2 == RatNorm(absdev * absdev * ref.std.sq.d, m.d * m.d * ref.std.sq.n)
             IN  ExpScore(z2.n, z2.d)

\* the sub-score (hundredths) of one feature: lines 252-266. With a NaN std
\* the z-score is NaN and max(0.0, min(100.0, nan)) is 100.0. A value more
\* than 12.1 std away (whole hundredths squared over the variance >= 147)
\* scores as ExpScore does beyond its table
SubScore(value, ref) ==
    LET m == ref.mean
        dev == value * m.d - m.n
        absdev == IF dev < 0 THEN -dev ELSE dev
        whole == absdev \div m.d
    IN  IF Branch(ref) = "direct"
        THEN (IF absdev < m.d THEN 10000 ELSE 5000)
        ELSE IF ref.std.nan
        THEN 10000
        ELSE IF whole * whole * ref.std.sq.d >= 147 * ref.std.sq.n
        THEN 0
        ELSE LET z2 == RatNorm(absdev * absdev * ref.std.sq.d, m.d * m.d * ref.std.sq.n)
             IN  ExpScore(z2.n, z2.d)

\* the weighted features for which a sub-score is computed: lines 245-250
Scored(profiles, f) ==
    {i \in DOMAIN KeyVars :
        /\ KeyVars[i][1] \in DOMAIN f
        /\ KeyVars[i][1] \in DOMAIN profiles
        /\ ~f[KeyVars[i][1]].nan}

\* scores and weights after the loop of lines 244-269, by feature
ScoreEntries(profiles, f) ==
    IF DOMAIN profiles = {} THEN <<>>
    ELSE [var \in {KeyVars[i][1] : i \in Scored(profiles, f)} |->
            LET i == CHOOSE j \in DOMAIN KeyVars : KeyVars[j][1] = var
            IN  [weight |-> KeyVars[i][2],
                 score |-> SubScore(f[var].v, profiles[var]),
                 branch |-> Branch(profiles[var])]]

RECURSIVE WeightedSum(_, _, _)
WeightedSum(profiles, f, is) ==
    IF is = {} THEN [sw |-> 0, w |-> 0]
    ELSE LET i == CHOOSE j \in is : TRUE
             rest == WeightedSum(profiles, f, is \ {i})
             var == KeyVars[i][1]
         IN  [sw |-> rest.sw + KeyVars[i][2] * SubScore(f[var].v, profiles[var]),
              w |-> rest.w + KeyVars[i][2]]

calculate_reliability_score_zero(profiles, f) ==
    IF DOMAIN profiles = {} THEN Rat(0, 1)
    ELSE IF Scored(profiles, f) = {} THEN Rat(50, 1)
    ELSE LET t == WeightedSum(profiles, f, Scored(profiles, f))
         IN  RatNorm(t.sw, 100 * t.w)

\* the reliability score in points
calculate_reliability_score(profiles, f) ==
    IF DOMAIN profiles = {} THEN Rat(50, 1)
    ELSE IF Scored(profiles, f) = {} THEN Rat(50, 1)
    ELSE LET t == WeightedSum(profiles, f, Scored(profiles, f))
         IN  RatNorm(t.sw, 100 * t.w)

classify_reliability_category_strict(s) ==
    IF RatLt(Rat(80, 1), s) THEN "alta"
    ELSE IF RatLt(Rat(60, 1), s) THEN "media"
    ELSE "baja"

classify_reliability_category(s) ==
    IF RatLe(Rat(80, 1), s) THEN "alta"
    ELSE IF RatLe(Rat(60, 1), s) THEN "media"
    ELSE "baja"

\* the predictor right after __init__(reference_data)
PInit ==
    /\ \E df \in ReferenceData :
        /\ reference_profiles = _build_reference_profiles(df)
        /\ stable_rows = IF df.given THEN Len(StableRows(df)) ELSE -1
    /\ features = <<>>
    /\ reliability = Rat(0, 1)
    /\ category = "none"
    /\ ppc = "ready"
    /\ scores = <<>>

\* the predictor at rest while another component is exercised
PIdle ==
    /\ reference_profiles = <<>>
    /\ stable_rows = -1
    /\ features = <<>>
    /\ reliability = Rat(0, 1)
    /\ category = "none"
    /\ ppc = "off"
    /\ scores = <<>>

\* score = predictor.calculate_reliability_score(features)
score_features ==
    /\ ppc = "ready"
    /\ \E f \in FeatureRecords :
        /\ features' = f
        /\ reliability' = calculate_reliability_score(reference_profiles, f)
        /\ scores' = ScoreEntries(reference_profiles, f)
    /\ ppc' = "scored"
    /\ UNCHANGED <<reference_profiles, stable_rows, category, avars, fvars, xvars>>

\* category = predictor.classify_reliability_category(score)
classify_score ==
    /\ ppc = "scored"
    /\ category' = classify_reliability_category(reliability)
    /\ ppc' = "classified"
    /\ UNCHANGED <<reference_profiles, stable_rows, features, reliability, scores,
                   avars, fvars, xvars>>

PNext ==
    \/ score_features
    \/ classify_score

PredictorInit == AIdle /\ PInit /\ call = NoCall /\ ret = <<>> /\ XIdle

SpecPredictor == PredictorInit /\ [][PNext]_vars

Init == AInit /\ call = NoCall /\ ret = <<>> /\ PIdle /\ XIdle

Next == ANext

Spec == Init /\ [][Next]_vars

----------------------------------------------------------------------------
(* Pure functions of ThermalAnalyzer applied to enumerated arguments *)

\* _score_temperature_sequence(top, middle, bottom) on three band means (halves)
ScoreCalls == {[fn |-> "score", args |-> a] : a \in TempGrid \X TempGrid \X TempGrid}

\* the confidence expression of _extract_features on two scores (tenths)
ConfidenceCalls == {[fn |-> "confidence", args |-> a] : a \in ScoreGrid \X ScoreGrid}

PureInit ==
    AIdle /\ PIdle /\ XIdle /\ call \in ScoreCalls \cup ConfidenceCalls /\ ret = <<>>

evaluate_score ==
    /\ call.fn = "score"
    /\ ret = <<>>
    /\ ret' = <<_score_temperature_sequence(Rat(call.args[1], 2),
                    Rat(call.args[2], 2), Rat(call.args[3], 2))>>
    /\ UNCHANGED <<call, pc, img_height, normalize, file, img, gradient, peaks_neg,
                   props, top, bottom, score, layers, result, called, pvars, xvars>>

evaluate_confidence ==
    /\ call.fn = "confidence"
    /\ ret = <<>>
    /\ ret' = <<Confidence(call.args[1]), Confidence(call.args[2])>>
    /\ UNCHANGED <<call, pc, img_height, normalize, file, img, gradient, peaks_neg,
                   props, top, bottom, score, layers, result, called, pvars, xvars>>

PureNext ==
    \/ evaluate_score
    \/ evaluate_confidence

SpecPure == PureInit /\ [][PureNext]_vars

----------------------------------------------------------------------------
(* ThermalAnalyzer._select_valid_interfaces applied to images tall enough   *)
(* for three peaks *)

\* a raw image of height H: four horizontal bands of brightness lv[1..4],
\* the lower three PeakDistance rows apart
FourBandImage(H, lv) ==
    [i \in 1..H |-> IF i <= H - 2 * PeakDistance - 2 THEN lv[1]
                    ELSE IF i <= H - PeakDistance - 2 THEN lv[2]
                    ELSE IF i <= H - 2 THEN lv[3] ELSE lv[4]]

\* what process_image passes as img: a preprocessed image
SelectImages ==
    {_preprocess_image(FourBandImage(SelectH, lv), norm) :
        lv \in SelectLevels, norm \in BOOLEAN}

\* _select_valid_interfaces(img, peaks_neg, props) as process_image calls it:
\* on what find_peaks returned, at least two peaks
SelectCalls ==
    UNION {{[fn |-> "select", args |-> <<image, r.peaks, r.prom>>] :
               r \in {x \in FindPeaksResults(image) : ~TooFewPeaks(x.peaks)}} :
           image \in SelectImages}

SelectInit ==
    AIdle /\ PIdle /\ XIdle /\ call \in SelectCalls /\ ret = <<>>

evaluate_select ==
    /\ call.fn = "select"
    /\ ret = <<>>
    /\ ret' = <<_select_valid_interfaces(call.args[1], call.args[2], call.args[3])>>
    /\ UNCHANGED <<call, pc, img_height, normalize, file, img, gradient, peaks_neg,
                   props, top, bottom, score, layers, result, called, pvars, xvars>>

SelectNext == evaluate_select

SpecSelect == SelectInit /\ [][SelectNext]_vars

----------------------------------------------------------------------------
(* RealtimeThermalPredictor.predict_new_image, with the analyzer it drives *)

\* file names predict_new_image is given: one carrying a timestamp, one that
\* matches the pattern with an impossible date, one that does not match
FileNames == {"tanque_20250101_120000.jpg", "tanque_20251340_250000.jpg", "captura.png"}

\* extract_timestamp_from_filename, as timestamp.isoformat() or "None"
extract_timestamp_from_filename(filename) ==
    IF filename = "tanque_20250101_120000.jpg" THEN "2025-01-01T12:00:00" ELSE "None"

\* the reference data of the predictors explored here: none, or at most two
\* rows under every column
RealtimeReferences ==
    {d \in ReferenceData :
        ~d.given \/ (Len(d.rows) <= 2 /\ ThermalVars \subseteq d.columns
                        /\ "batch_type" \in d.columns)}

\* the dict returned for a path that does not exist: lines 327-331
ImageNotFound ==
    [error |-> "image_not_found", reliability_score |-> Rat(0, 1),
     reliability_category |-> "baja"]

ExtractionFailed_never(f) == FALSE

\* if features.get('status') != 'success'
ExtractionFailed(f) == "status" \notin DOMAIN f \/ f.status # "success"

\* the weighted features of an extracted record as the scorer reads them: the
\* scorer's arithmetic is carried on hundredths, a float is taken to the
\* nearest hundredth
ScoringView(f) ==
    [var \in KeyVarNames \cap DOMAIN f |-> Val(RoundDiv(100 * f[var].n, f[var].d))]

\* RealtimeThermalPredictor(reference_data) constructed, predict_new_image
\* about to be called with a path
RInit ==
    /\ pc = "off"
    /\ img_height = RealtimeH
    /\ normalize = TRUE
    /\ file \in {"missing", "corrupt", "ok"}
    /\ img = <<>>
    /\ gradient = [max |-> Rat(0, 1), std |-> Rat(0, 1)]
    /\ peaks_neg = <<>>
    /\ props = <<>>
    /\ top = 0
    /\ bottom = 0
    /\ score = 0
    /\ layers = NoLayers
    /\ result = NoResult
    /\ called = {}
    /\ \E d \in RealtimeReferences :
        /\ reference_profiles = _build_reference_profiles(d)
        /\ stable_rows = IF d.given THEN Len(StableRows(d)) ELSE -1
    /\ features = <<>>
    /\ reliability = Rat(0, 1)
    /\ category = "none"
    /\ scores = <<>>
    /\ ppc = "predict"
    /\ image_path \in FileNames
    /\ prediction = <<>>
    /\ invoked = {}

\* lines 320-340: the existence check, the timestamp, and the call of
\* process_image_fast, which calls self.analyzer.process_image
predict_entry ==
    /\ ppc = "predict"
    /\ IF ~PathExists(file)
       THEN /\ prediction' = ImageNotFound
            /\ invoked' = invoked \cup {"predict_new_image"}
            /\ ppc' = "returned"
            /\ pc' = pc
       ELSE /\ invoked' = invoked \cup {"predict_new_image",
                    "extract_timestamp_from_filename", "process_image_fast"}
            /\ ppc' = "processing"
            /\ pc' = "entry"
            /\ UNCHANGED prediction
    /\ UNCHANGED <<img_height, normalize, file, img, gradient, peaks_neg, props,
                   top, bottom, score, layers, result, called, fvars,
                   reference_profiles, stable_rows, features, reliability,
                   category, scores, image_path, cvars, bvars, svars, mvars, wvars>>

\* lines 199-212: process_image has returned; the time is measured (a warning
\* is logged past the limit, nothing else) and three keys are added
process_image_fast_return ==
    /\ ppc = "processing"
    /\ pc = "done"
    /\ \E processing_time \in Durations :
        features' = [processing_time |-> processing_time,
                     image_path |-> image_path,
                     image_filename |-> image_path] @@ result
    /\ ppc' = "extracted"
    /\ UNCHANGED <<avars, fvars, reference_profiles, stable_rows, reliability,
                   category, scores, xvars>>

\* lines 342-349: the extraction failed
predict_failed ==
    /\ ppc = "extracted"
    /\ ExtractionFailed(features)
    /\ prediction' = [reliability_score |-> Rat(0, 1),
                      reliability_category |-> "baja",
                      timestamp |-> extract_timestamp_from_filename(image_path)]
                     @@ features
    /\ ppc' = "returned"
    /\ UNCHANGED <<avars, fvars, reference_profiles, stable_rows, features,
                   reliability, category, scores, image_path, invoked, cvars,
                   bvars, svars, mvars, wvars>>

\* lines 351-369: score, category and the complete result
predict_score ==
    /\ ppc = "extracted"
    /\ ~ExtractionFailed(features)
    /\ reliability' = calculate_reliability_score(reference_profiles, ScoringView(features))
    /\ scores' = ScoreEntries(reference_profiles, ScoringView(features))
    /\ category' = classify_reliability_category(reliability')
    /\ invoked' = invoked \cup {"calculate_reliability_score",
                                  "classify_reliability_category"}
    /\ \E total \in {t \in Durations : t >= features.processing_time} :
        prediction' = [reliability_score |-> reliability',
                       reliability_category |-> category',
                       timestamp |-> extract_timestamp_from_filename(image_path),
                       total_processing_time |-> total] @@ features
    /\ ppc' = "returned"
    /\ UNCHANGED <<avars, fvars, reference_profiles, stable_rows, features,
                   image_path, cvars, bvars, svars, mvars, wvars>>

RNext ==
    \/ predict_entry
    \/ process_image_entry
    \/ raise_exception
    \/ except_handler
    \/ load_image
    \/ preprocess_image
    \/ detect_peaks
    \/ select_interfaces
    \/ calculate_layers
    \/ extract_features
    \/ process_image_fast_return
    \/ predict_failed
    \/ predict_score

RealtimeInit ==
    RInit /\ call = NoCall /\ ret = <<>> /\ CIdle /\ BIdle /\ SIdle /\ MIdle /\ WIdle

SpecRealtime == RealtimeInit /\ [][RNext]_vars

----------------------------------------------------------------------------
(* Concurrent calls of calculate_reliability_score and                      *)
(* classify_reliability_category on one RealtimeThermalPredictor, one       *)
(* action per statement group of each call.  calls.thread[t] is the control *)
(* state, argument and return value of call t; calls.frame[k] holds the     *)
(* locals of a call (the loop position and the scores / weights lists).     *)

Threads == 1..NumCalls

\* the records the concurrent calls are given: the five features all null,
\* all 0.50 or all 0.76
ConcurrentRecords ==
    {[var \in KeyVarNames |-> x] : x \in {NaN, Val(50), Val(76)}}

Frame_shared(t) == 1

\* scores, weights and the loop variables are locals of each call (lines
\* 232-244): call t works in a frame of its own
Frame(t) == t

NewFrame == [i |-> 1, entries |-> <<>>]

RECURSIVE SumWeighted(_)
SumWeighted(entries) ==
    IF entries = <<>> THEN [sw |-> 0, w |-> 0]
    ELSE LET rest == SumWeighted(Tail(entries))
         IN  [sw |-> rest.sw + Head(entries).weight * Head(entries).score,
              w |-> rest.w + Head(entries).weight]

\* np.average(scores, weights=weights), in points
np_average(entries) ==
    LET t == SumWeighted(entries) IN RatNorm(t.sw, 100 * t.w)

\* one predictor, NumCalls scoring calls about to start on it
CInit ==
    /\ \E d \in RealtimeReferences :
        /\ reference_profiles = _build_reference_profiles(d)
        /\ stable_rows = IF d.given THEN Len(StableRows(d)) ELSE -1
    /\ features = <<>>
    /\ reliability = Rat(0, 1)
    /\ category = "none"
    /\ scores = <<>>
    /\ ppc = "shared"
    /\ \E f \in [Threads -> ConcurrentRecords] :
        calls = [thread |-> [t \in Threads |->
                                [pos |-> "start", features |-> f[t],
                                 ret |-> Rat(0, 1), category |-> "none"]],
                 frame |-> [t \in Threads |-> NewFrame]]

\* lines 228-233: the empty-reference return, or scores = [] and weights = []
score_begin(t) ==
    /\ calls.thread[t].pos = "start"
    /\ IF DOMAIN reference_profiles = {}
       THEN calls' = [calls EXCEPT !.thread[t].pos = "scored",
                                   !.thread[t].ret = Rat(50, 1)]
       ELSE calls' = [calls EXCEPT !.thread[t].pos = "loop",
                                   !.frame[Frame(t)] = NewFrame]
    /\ UNCHANGED <<avars, fvars, pvars, rvars, bvars, svars, mvars, wvars>>

\* lines 244-269: one iteration of the loop over key_vars
score_iter(t) ==
    /\ calls.thread[t].pos = "loop"
    /\ calls.frame[Frame(t)].i <= Len(KeyVars)
    /\ LET fr == calls.frame[Frame(t)]
           var == KeyVars[fr.i][1]
           f == calls.thread[t].features
           skip == \/ var \notin DOMAIN f
                   \/ var \notin DOMAIN reference_profiles
                   \/ f[var].nan
       IN  calls' = [calls EXCEPT !.frame[Frame(t)] =
                        [i |-> fr.i + 1,
                         entries |-> IF skip THEN fr.entries
                                     ELSE Append(fr.entries,
                                            [weight |-> KeyVars[fr.i][2],
                                             score |-> SubScore(f[var].v,
                                                         reference_profiles[var])])]]
    /\ UNCHANGED <<avars, fvars, pvars, rvars, bvars, svars, mvars, wvars>>

\* lines 271-280: the neutral default or the weighted average
score_end(t) ==
    /\ calls.thread[t].pos = "loop"
    /\ calls.frame[Frame(t)].i > Len(KeyVars)
    /\ LET entries == calls.frame[Frame(t)].entries
       IN  calls' = [calls EXCEPT !.thread[t].pos = "scored",
                                   !.thread[t].ret =
                                       IF entries = <<>> THEN Rat(50, 1)
                                       ELSE np_average(entries)]
    /\ UNCHANGED <<avars, fvars, pvars, rvars, bvars, svars, mvars, wvars>>

\* classify_reliability_category on the score the call returned
classify_call(t) ==
    /\ calls.thread[t].pos = "scored"
    /\ calls' = [calls EXCEPT !.thread[t].pos = "classified",
                               !.thread[t].category =
                                   classify_reliability_category(calls.thread[t].ret)]
    /\ UNCHANGED <<avars, fvars, pvars, rvars, bvars, svars, mvars, wvars>>

CNext ==
    \E t \in Threads :
        \/ score_begin(t)
        \/ score_iter(t)
        \/ score_end(t)
        \/ classify_call(t)

ConcurrentInit ==
    AIdle /\ CInit /\ call = NoCall /\ ret = <<>> /\ RIdle /\ BIdle /\ SIdle
    /\ MIdle /\ WIdle

SpecConcurrent == ConcurrentInit /\ [][CNext]_vars

----------------------------------------------------------------------------
(* ReliabilityAnalyzer.classify_batches (src/steps/4_reliability_analysis.py) *)
(* A sigma value is an integer number of tenths.  A normalised value        *)
(* (x - mean) / std is kept exactly as [c, r], standing for c * sqrt(r)     *)
(* with c an integer and r a positive rational: with N rows, a = N x - sum  *)
(* and V the sum of the a squared, (x - mean) / std = a * sqrt(N / V).      *)
(* sigma_combined is kept as the vector of the c of its columns, the common *)
(* factor 1 / (number of columns) left out; a threshold is kept the same    *)
(* way with the common factor 1 / (2 * number of columns).                  *)

\* the default sigma_columns
SigmaColumns == <<"sigma_Caudal", "sigma_Nivel TK %">>

\* the DataFrames classify_batches is given: any subset of the sigma columns
\* present, 1..MaxBatchRows rows
BatchFrames ==
    UNION {{[columns |-> cols, rows |-> r, classified |-> FALSE] :
                r \in UNION {[1..k -> [cols -> SigmaVals]] : k \in 1..MaxBatchRows}} :
           cols \in SUBSET {SigmaColumns[i] : i \in DOMAIN SigmaColumns}}

\* self.sigma_threshold: None, or the explicit value 0.0
Thresholds == {"None", "0.0"}

\* df[col].values
ColumnValues(d, col) == [k \in 1..Len(d.rows) |-> d.rows[k][col]]

IsConstant(vals) == \A i, j \in DOMAIN vals : vals[i] = vals[j]

\* N * (x - mean) for row k
Deviation(vals, k) == Len(vals) * vals[k] - SumSeq(vals)

RECURSIVE SumSquares(_, _)
SumSquares(vals, k) ==
    IF k = 0 THEN 0
    ELSE Deviation(vals, k) * Deviation(vals, k) + SumSquares(vals, k - 1)

\* numpy on a column of n equal doubles c / 10 (IEEE 754 binary64, sum in
\* row order then one division): (c - mean) / std when std() comes out
\* positive, 0 when mean() is exactly c.  0.1 + 0.1 + 0.1 is
\* 0.30000000000000004 and a third of it 0.10000000000000002, so std() is
\* 1.39e-17 and every row normalises to -1.0; likewise for 0.2, and with the
\* opposite sign for 6 or 7 rows.  Valid for c in 0..3 and n in 1..7
ConstantColumnResidue(c, n) ==
    IF c \in {1, 2} /\ n = 3 THEN -1
    ELSE IF c \in {1, 2} /\ n \in {6, 7} THEN 1
    ELSE 0

\* col_values.std() > 0
StdPositive(vals) ==
    IF IsConstant(vals) THEN ConstantColumnResidue(vals[1], Len(vals)) # 0 ELSE TRUE

\* sigma_normalized[k, i]: lines 151-154
Normalized(vals, k) ==
    IF ~StdPositive(vals) THEN [c |-> 0, r |-> Rat(1, 1)]
    ELSE IF IsConstant(vals)
    THEN [c |-> ConstantColumnResidue(vals[1], Len(vals)), r |-> Rat(1, 1)]
    ELSE [c |-> Deviation(vals, k),
          r |-> RatNorm(Len(vals), SumSquares(vals, Len(vals)))]

Sg(x) == IF x > 0 THEN 1 ELSE IF x < 0 THEN -1 ELSE 0

\* the sign of A * sqrt(r1) + B * sqrt(r2)
Sign2(A, r1, B, r2) ==
    IF Sg(A) = 0 THEN Sg(B)
    ELSE IF Sg(B) = 0 \/ Sg(A) = Sg(B) THEN Sg(A)
    ELSE Sg(A) * Sg(A * A * r1.n * r2.d - B * B * r2.n * r1.d)

\* the sign of the sum over cols of coef[col] * sqrt(rad[col]), for at most
\* two columns
SignSum(coef, rad, cols) ==
    IF cols = {} THEN 0
    ELSE LET a == CHOOSE col \in cols : TRUE
         IN  IF cols = {a} THEN Sg(coef[a])
             ELSE LET b == CHOOSE col \in cols \ {a} : TRUE
                  IN  Sign2(coef[a], rad[a], coef[b], rad[b])

\* the sign of v - w for two sigma_combined values
Cmp(v, w, rad) ==
    SignSum([col \in DOMAIN v |-> v[col] - w[col]], rad, DOMAIN v)

\* a row holding the k-th smallest of the values (k = 1 for the smallest)
Kth(values, rad, k) ==
    CHOOSE i \in DOMAIN values :
        /\ Cardinality({j \in DOMAIN values : Cmp(values[j], values[i], rad) < 0}) <= k - 1
        /\ Cardinality({j \in DOMAIN values : Cmp(values[j], values[i], rad) <= 0}) >= k

\* np.median(sigma_combined), doubled: the middle value, or the mean of the
\* two middle values
np_median(values, rad) ==
    LET N == Len(values)
        lo == values[Kth(values, rad, (N + 1) \div 2)]
        hi == values[Kth(values, rad, (N + 2) \div 2)]
    IN  [col \in DOMAIN lo |-> lo[col] + hi[col]]

BatchType_strict(x, threshold, rad) ==
    IF SignSum([col \in DOMAIN x |-> 2 * x[col] - threshold[col]], rad, DOMAIN x) < 0
    THEN "estable" ELSE "turbulento"

\* 'estable' if x <= threshold else 'turbulento'
BatchType(x, threshold, rad) ==
    IF SignSum([col \in DOMAIN x |-> 2 * x[col] - threshold[col]], rad, DOMAIN x) <= 0
    THEN "estable" ELSE "turbulento"

\* classify_batches(df) of an analyzer whose sigma_threshold is th; the
\* locals sigma_normalized and threshold are kept beside the new columns
classify_batches_result(d, th) ==
    LET valid_sigma_cols ==
            {SigmaColumns[i] : i \in DOMAIN SigmaColumns} \cap d.columns
        N == Len(d.rows)
    IN  IF valid_sigma_cols = {}
        THEN [columns |-> d.columns \cup {"batch_type"},
              rows |-> [k \in 1..N |-> [batch_type |-> "desconocido"] @@ d.rows[k]],
              classified |-> TRUE]
        ELSE LET sigma_normalized ==
                     [k \in 1..N |-> [col \in valid_sigma_cols |->
                                        Normalized(ColumnValues(d, col), k)]]
                 rad == [col \in valid_sigma_cols |-> sigma_normalized[1][col].r]
                 sigma_combined ==
                     [k \in 1..N |-> [col \in valid_sigma_cols |->
                                        sigma_normalized[k][col].c]]
                 threshold ==
                     IF th = "None" THEN np_median(sigma_combined, rad)
                     ELSE [col \in valid_sigma_cols |-> 0]
             IN  [columns |-> d.columns \cup {"sigma_combined", "batch_type"},
                  rows |-> [k \in 1..N |->
                              [sigma_combined |-> sigma_combined[k],
                               batch_type |-> BatchType(sigma_combined[k], threshold, rad)]
                              @@ d.rows[k]],
                  classified |-> TRUE,
                  valid_sigma_cols |-> valid_sigma_cols,
                  sigma_normalized |-> sigma_normalized,
                  rad |-> rad,
                  threshold |-> threshold]

\* a ReliabilityAnalyzer and a DataFrame with sigma columns
BInit ==
    /\ batch_df \in BatchFrames
    /\ sigma_threshold \in Thresholds

\* df_classified = analyzer.classify_batches(df)
classify_batches ==
    /\ sigma_threshold # "off"
    /\ ~batch_df.classified
    /\ batch_df' = classify_batches_result(batch_df, sigma_threshold)
    /\ UNCHANGED <<sigma_threshold, avars, fvars, pvars, rvars, cvars, svars, mvars, wvars>>

BNext == classify_batches

ClassifyInit ==
    AIdle /\ PIdle /\ call = NoCall /\ ret = <<>> /\ RIdle /\ CIdle /\ SIdle /\ BInit
    /\ MIdle /\ WIdle

SpecClassify == ClassifyInit /\ [][BNext]_vars

----------------------------------------------------------------------------
(* ReliabilityAnalyzer.correlate_reliability and validate_hypothesis_anova. *)
(* The statistical steps read a DataFrame through row counts only, so it is *)
(* kept as the number of rows of each kind; a kind is a status, a           *)
(* batch_type and the set of columns that are null in such a row.  What     *)
(* scipy returns for data that is sufficient is any of a few outcomes; a    *)
(* p-value is a number of hundredths, or NaN.                               *)

\* thermal_vars of correlate_reliability
CorrelationVars ==
    {"thermal_gradient_max", "thermal_gradient_std", "thermal_interface_confidence",
     "thermal_emulsion_ratio", "thermal_agua_ratio"}

\* comparison_vars of validate_hypothesis_anova
ComparisonVars ==
    {"thermal_gradient_max", "thermal_interface_confidence",
     "thermal_emulsion_ratio", "thermal_agua_ratio"}

\* the kinds of row of the DataFrames explored
RowKinds ==
    <<[status |-> "success", batch_type |-> "estable", nulls |-> {}],
      [status |-> "success", batch_type |-> "turbulento", nulls |-> {}],
      [status |-> "success", batch_type |-> "estable", nulls |-> {"thermal_gradient_max"}],
      [status |-> "success", batch_type |-> "turbulento", nulls |-> {"thermal_gradient_max"}],
      [status |-> "success", batch_type |-> "estable", nulls |-> {"sigma_Caudal"}],
      [status |-> "processing_error", batch_type |-> "estable", nulls |-> {}],
      [status |-> "success", batch_type |-> "desconocido", nulls |-> {}]>>

\* how many rows of each kind a DataFrame explored can hold
KindCounts ==
    <<{0, 2, 3, MaxGroup}, {0, 2, 3, MaxGroup}, {0, MaxGroup}, {0, MaxGroup},
      {0, 2}, {0, 1}, {0, 1}>>

\* the column sets of the DataFrames explored, beside status and batch_type
AnalysisColumns ==
    {{"thermal_gradient_max", "thermal_interface_confidence", "sigma_Caudal"},
     {"thermal_interface_confidence", "sigma_Caudal"},
     {"thermal_gradient_max", "thermal_interface_confidence"},
     {"thermal_interface_confidence", "sigma_Caudal", "sigma_combined"},
     {"sigma_Caudal"}}

HistoryFrames ==
    {[columns |-> c, counts |-> n] :
        c \in AnalysisColumns,
        n \in {f \in [DOMAIN RowKinds -> 0..MaxGroup] :
                  \A k \in DOMAIN RowKinds : f[k] \in KindCounts[k]}}

\* (df['status'] == 'success') & (df['batch_type'].isin(['estable', 'turbulento']))
IsValidKind(kind) ==
    kind.status = "success" /\ kind.batch_type \in {"estable", "turbulento"}

RECURSIVE CountRows(_, _, _)
\* the number of rows of h whose kind satisfies keep, kinds 1..k
CountRows(h, keep, k) ==
    IF k = 0 THEN 0
    ELSE (IF keep[k] THEN h.counts[k] ELSE 0) + CountRows(h, keep, k - 1)

\* len(df_valid)
ValidRows(h) ==
    CountRows(h, [k \in DOMAIN RowKinds |-> IsValidKind(RowKinds[k])], Len(RowKinds))

\* mask.sum(): rows of df_valid with both columns not null
PairedRows(h, thermal_var, sigma_var) ==
    CountRows(h, [k \in DOMAIN RowKinds |->
                    /\ IsValidKind(RowKinds[k])
                    /\ thermal_var \notin RowKinds[k].nulls
                    /\ sigma_var \notin RowKinds[k].nulls], Len(RowKinds))

\* len(df_valid[df_valid['batch_type'] == bt][var].dropna())
GroupRows(h, var, bt) ==
    CountRows(h, [k \in DOMAIN RowKinds |->
                    /\ IsValidKind(RowKinds[k])
                    /\ RowKinds[k].batch_type = bt
                    /\ var \notin RowKinds[k].nulls], Len(RowKinds))

\* if len(df_valid) < 10
InsufficientData(n) == n < 10

TooFewPaired_two(n) == n < 2

\* if mask.sum() < 3
TooFewPaired(n) == n < 3

\* if len(stable) < 3 or len(turbulent) < 3
TooFewInGroup(n_stable, n_turbulent) == n_stable < 3 \/ n_turbulent < 3

\* [col for col in df_valid.columns if col.startswith('sigma_')]
SigmaVars(columns) ==
    columns \cap {"sigma_Caudal", "sigma_Nivel TK %", "sigma_combined"}

\* what pearsonr / spearmanr gives for a pair with enough data: it raises,
\* or returns a coefficient (hundredths) and a p-value (both NaN when an
\* input is constant)
CorrelationOutcomes ==
    {[raised |-> TRUE, correlation |-> NaN, p_value |-> NaN],
     [raised |-> FALSE, correlation |-> Val(-50), p_value |-> Val(3)],
     [raised |-> FALSE, correlation |-> Val(50), p_value |-> Val(7)],
     [raised |-> FALSE, correlation |-> Val(0), p_value |-> Val(50)],
     [raised |-> FALSE, correlation |-> NaN, p_value |-> NaN]}

\* what f_oneway gives for two groups with enough data: it raises, or
\* returns a p-value (NaN when the data is constant)
AnovaOutcomes ==
    {[raised |-> TRUE, p_value |-> NaN],
     [raised |-> FALSE, p_value |-> Val(3)],
     [raised |-> FALSE, p_value |-> Val(7)],
     [raised |-> FALSE, p_value |-> Val(50)],
     [raised |-> FALSE, p_value |-> NaN]}

Significant_strict(p_value) == ~p_value.nan /\ p_value.v < 5

\* p_value < 0.1 (a comparison with NaN is False)
Significant(p_value) == ~p_value.nan /\ p_value.v < 10

\* the pairs correlate_reliability computes a correlation for
ComputedPairs(h) ==
    {pair \in (CorrelationVars \cap h.columns) \X SigmaVars(h.columns) :
        ~TooFewPaired(PairedRows(h, pair[1], pair[2]))}

\* correlate_reliability(df) when scipy answers out[pair] for each pair
correlate_reliability_result(h, out) ==
    IF InsufficientData(ValidRows(h)) THEN <<>>
    ELSE [thermal_var \in CorrelationVars \cap h.columns |->
            [sigma_var \in {sv \in SigmaVars(h.columns) :
                                /\ <<thermal_var, sv>> \in ComputedPairs(h)
                                /\ ~out[<<thermal_var, sv>>].raised} |->
                [correlation |-> out[<<thermal_var, sigma_var>>].correlation,
                 p_value |-> out[<<thermal_var, sigma_var>>].p_value,
                 significant |-> Significant(out[<<thermal_var, sigma_var>>].p_value),
                 n_samples |-> PairedRows(h, thermal_var, sigma_var)]]]

\* the features validate_hypothesis_anova runs f_oneway for
ComparedVars(h) ==
    {var \in ComparisonVars \cap h.columns :
        ~TooFewInGroup(GroupRows(h, var, "estable"), GroupRows(h, var, "turbulento"))}

\* validate_hypothesis_anova(df) when scipy answers out[var] for each
\* feature; the F statistic, the means, the stds and the effect size of an
\* entry are left out
validate_hypothesis_anova_result(h, out) ==
    IF InsufficientData(ValidRows(h))
    THEN [hypothesis_validated |-> FALSE, error |-> "insufficient_data"]
    ELSE LET anova_results ==
                 [var \in {v \in ComparedVars(h) : ~out[v].raised} |->
                     [p_value |-> out[var].p_value,
                      significant |-> Significant(out[var].p_value),
                      n_stable |-> GroupRows(h, var, "estable"),
                      n_turbulent |-> GroupRows(h, var, "turbulento")]]
             significant_vars ==
                 {var \in DOMAIN anova_results : anova_results[var].significant}
         IN  [anova_results |-> anova_results,
              hypothesis_validated |-> Cardinality(significant_vars) > 0,
              n_significant_vars |-> Cardinality(significant_vars),
              significant_vars |-> significant_vars]

\* a classified DataFrame, analyze_reliability about to run its steps 3 and 4
SInit ==
    /\ history \in HistoryFrames
    /\ correlations = <<>>
    /\ anova = <<>>
    /\ report = <<>>

\* correlations = self.correlate_reliability(df)
correlate_reliability ==
    /\ history # <<>>
    /\ correlations = <<>>
    /\ \E out \in [ComputedPairs(history) -> CorrelationOutcomes] :
        correlations' = [table |-> correlate_reliability_result(history, out)]
    /\ UNCHANGED <<history, anova, report, avars, fvars, pvars, rvars, cvars, bvars, mvars, wvars>>

\* anova_results = self.validate_hypothesis_anova(df)
validate_hypothesis_anova ==
    /\ correlations # <<>>
    /\ anova = <<>>
    /\ \E out \in [ComparedVars(history) -> AnovaOutcomes] :
        anova' = validate_hypothesis_anova_result(history, out)
    /\ UNCHANGED <<history, correlations, report, avars, fvars, pvars, rvars, cvars, bvars, mvars, wvars>>

\* metrics of generate_comparative_report
ReportMetrics ==
    {"thermal_gradient_max", "thermal_gradient_std", "thermal_interface_confidence",
     "thermal_emulsion_ratio", "thermal_agua_ratio", "thermal_crudo_ratio"}

\* the order in which generate_comparative_report looks for a sigma column
SigmaKeys == <<"sigma_Caudal", "sigma_combined", "sigma_Nivel TK %">>

\* Python None, in a cell that otherwise holds hundredths
None == [null |-> TRUE, v |-> 0]

Some(x) == [null |-> FALSE, v |-> x]

RECURSIVE FirstNotBelowZero(_, _)
\* the loop over sigma_key: the first correlation, from key k on, that is
\* not None and >= 0 (NaN >= 0 is False); None when there is none
FirstNotBelowZero(sigma_corrs, k) ==
    IF k > Len(SigmaKeys) THEN None
    ELSE IF /\ SigmaKeys[k] \in DOMAIN sigma_corrs
            /\ ~sigma_corrs[SigmaKeys[k]].correlation.nan
            /\ sigma_corrs[SigmaKeys[k]].correlation.v >= 0
         THEN Some(sigma_corrs[SigmaKeys[k]].correlation.v)
         ELSE FirstNotBelowZero(sigma_corrs, k + 1)

\* report_df.loc[report_df['correlacion_sigma'] < 0, 'correlacion_sigma'] = None
CleanBelowZero(cell) ==
    IF ~cell.null /\ cell.v < 0 THEN None ELSE cell

RECURSIVE FirstPresent(_, _)
FirstPresent(sigma_corrs, k) ==
    IF k > Len(SigmaKeys) THEN None
    ELSE IF SigmaKeys[k] \in DOMAIN sigma_corrs /\ ~sigma_corrs[SigmaKeys[k]].correlation.nan
         THEN Some(sigma_corrs[SigmaKeys[k]].correlation.v)
         ELSE FirstPresent(sigma_corrs, k + 1)

CorrelacionSigma_raw(table, metric) ==
    IF metric \in DOMAIN table THEN FirstPresent(table[metric], 1) ELSE None

\* the correlacion_sigma cell of the row of metric
CorrelacionSigma(table, metric) ==
    CleanBelowZero(IF metric \in DOMAIN table
                   THEN FirstNotBelowZero(table[metric], 1)
                   ELSE None)

\* generate_comparative_report(df, correlations, anova_results): its rows by
\* metric; the means and stds of a row are left out.  A NaN p-value is a
\* null cell of the DataFrame
generate_comparative_report_result(h, table, anova_results) ==
    IF ValidRows(h) = 0 THEN <<>>
    ELSE [metric \in {m \in ReportMetrics \cap h.columns :
                         /\ GroupRows(h, m, "estable") # 0
                         /\ GroupRows(h, m, "turbulento") # 0} |->
            LET has_p == /\ "anova_results" \in DOMAIN anova_results
                         /\ metric \in DOMAIN anova_results.anova_results
                p_value == IF has_p THEN anova_results.anova_results[metric].p_value
                           ELSE NaN
            IN  [n_estable |-> GroupRows(h, metric, "estable"),
                 n_turbulento |-> GroupRows(h, metric, "turbulento"),
                 correlacion_sigma |-> CorrelacionSigma(table, metric),
                 p_value_anova |-> IF has_p /\ ~p_value.nan THEN Some(p_value.v) ELSE None,
                 significativo |-> has_p /\ Significant(p_value)]]

\* report = self.generate_comparative_report(df, correlations, anova_results)
generate_comparative_report ==
    /\ anova # <<>>
    /\ report = <<>>
    /\ report' = [rows |-> generate_comparative_report_result(
                               history, correlations.table, anova)]
    /\ UNCHANGED <<history, correlations, anova, avars, fvars, pvars, rvars, cvars, bvars, mvars, wvars>>

SNext ==
    \/ correlate_reliability
    \/ validate_hypothesis_anova
    \/ generate_comparative_report

AnalysisInit ==
    AIdle /\ PIdle /\ call = NoCall /\ ret = <<>> /\ RIdle /\ CIdle /\ BIdle /\ SInit
    /\ MIdle /\ WIdle

SpecAnalysis == AnalysisInit /\ [][SNext]_vars

----------------------------------------------------------------------------
(* main (src/main.py): the batch loop over the rows of df and the column-   *)
(* wise concatenation.  A row of df is kept as what its imagen_path names:  *)
(* "no_path" (NaN), "missing", "corrupt" or "ok".  An element of            *)
(* thermal_features is [idx, features]: the record appended and, as         *)
(* bookkeeping, the row whose iteration appended it.  df has the RangeIndex *)
(* read_csv gave it and pd.DataFrame(thermal_features) a RangeIndex of its  *)
(* own; labels are written 1 .. N.                                          *)

\* the rows of df
Datasets ==
    {d \in UNION {[1..n -> {"no_path", "missing", "corrupt", "ok"}] : n \in 0..MaxDataset} :
        Cardinality({i \in DOMAIN d : d[i] = "ok"}) <= MaxDecodable}

\* analyzer = ThermalAnalyzer(img_height=512, ..., normalize=True);
\* thermal_features = []
MInit ==
    /\ pc = "loop"
    /\ img_height = BatchH
    /\ normalize = TRUE
    /\ file = "no_path"
    /\ img = <<>>
    /\ gradient = [max |-> Rat(0, 1), std |-> Rat(0, 1)]
    /\ peaks_neg = <<>>
    /\ props = <<>>
    /\ top = 0
    /\ bottom = 0
    /\ score = 0
    /\ layers = NoLayers
    /\ result = NoResult
    /\ called = {}
    /\ dataset \in Datasets
    /\ thermal_features = <<>>
    /\ row_idx = 0
    /\ df_final = <<>>

\* for idx, row in df.iterrows(): the next row
next_row ==
    /\ pc = "loop"
    /\ row_idx < Len(dataset)
    /\ row_idx' = row_idx + 1
    /\ file' = dataset[row_idx + 1]
    /\ pc' = "row"
    /\ called' = {}
    /\ UNCHANGED <<img_height, normalize, img, gradient, peaks_neg, props, top, bottom,
                   score, layers, result, dataset, thermal_features, df_final,
                   fvars, pvars, rvars, cvars, bvars, svars, wvars>>

\* the print of process_image's handler raises, and the exception leaves
\* process_image
handler_raises ==
    /\ pc = "except"
    /\ pc' = "raised"
    /\ UNCHANGED <<img_height, normalize, file, img, gradient, peaks_neg, props,
                   top, bottom, score, layers, result, called, call, ret, pvars, xvars>>

\* except Exception as e: of main; its append is append_features
main_except ==
    /\ pc = "raised"
    /\ result' = _default_output("processing_error")
    /\ called' = called \cup {"main.except", "_default_output"}
    /\ pc' = "done"
    /\ UNCHANGED <<img_height, normalize, file, img, gradient, peaks_neg, props,
                   top, bottom, score, layers, call, ret, pvars, xvars>>

AppendFeatures_front(list, record) == <<record>> \o list

\* thermal_features.append(...)
AppendFeatures(list, record) == Append(list, record)

\* the append that ends each of the three branches of the loop body; the
\* locals of the iteration are dropped
append_features ==
    /\ pc = "done"
    /\ row_idx >= 1
    /\ thermal_features' =
           AppendFeatures(thermal_features, [idx |-> row_idx, features |-> result])
    /\ pc' = "loop"
    /\ img' = <<>>
    /\ gradient' = [max |-> Rat(0, 1), std |-> Rat(0, 1)]
    /\ peaks_neg' = <<>>
    /\ props' = <<>>
    /\ top' = 0
    /\ bottom' = 0
    /\ score' = 0
    /\ layers' = NoLayers
    /\ result' = NoResult
    /\ UNCHANGED <<img_height, normalize, file, called, dataset, row_idx, df_final,
                   fvars, pvars, rvars, cvars, bvars, svars, wvars>>

\* pd.concat([df, thermal_df], axis=1): the rows are matched by index label
\* and a label one side lacks gets nulls on that side
pd_concat(df, thermal_df) ==
    [label \in (DOMAIN df) \cup (DOMAIN thermal_df) |->
        [data |-> IF label \in DOMAIN df THEN df[label] ELSE "null",
         features |-> IF label \in DOMAIN thermal_df THEN thermal_df[label].features
                      ELSE NoResult]]

\* thermal_df = pd.DataFrame(thermal_features); df_final = pd.concat(...)
combine ==
    /\ pc = "loop"
    /\ row_idx = Len(dataset)
    /\ df_final' = [rows |-> pd_concat(dataset, thermal_features)]
    /\ pc' = "saved"
    /\ UNCHANGED <<avars_but_pc, dataset, thermal_features, row_idx,
                   fvars, pvars, rvars, cvars, bvars, svars, wvars>>

MNext ==
    \/ next_row
    \/ main_row
    \/ process_image_entry
    \/ raise_exception
    \/ except_handler
    \/ handler_raises
    \/ main_except
    \/ load_image
    \/ preprocess_image
    \/ detect_peaks
    \/ select_interfaces
    \/ calculate_layers
    \/ extract_features
    \/ append_features
    \/ combine

BatchInit ==
    MInit /\ call = NoCall /\ ret = <<>> /\ PIdle /\ RIdle /\ CIdle /\ BIdle /\ SIdle
    /\ WIdle

SpecBatch == BatchInit /\ [][MNext]_vars

----------------------------------------------------------------------------
(* ReliabilityAnalyzer.compute_sigma.  A DataFrame is a function from       *)
(* column names to columns in the order the sort by 'Dia' leaves them; a    *)
(* cell of a signal column is [nan, v]; a cell of a sigma column is         *)
(* [nan, num, den], standing for sqrt(num / den).                           *)

\* the default of the columns argument
SigmaSignals == {"Caudal", "Nivel TK %"}

\* f'sigma_{col}'
SigmaName(col) == IF col = "Caudal" THEN "sigma_Caudal" ELSE "sigma_Nivel TK %"

SignalColumns(n) == [1..n -> {Val(x) : x \in SignalVals} \cup {NaN}]

\* the DataFrames explored: Caudal, and with or without Nivel TK %
SigmaFrames ==
    UNION {{[c \in {"Caudal"} |-> col] : col \in SignalColumns(n)}
           \cup {[c \in SigmaSignals |-> IF c = "Caudal" THEN col ELSE [i \in 1..n |-> Val(1)]] :
                    col \in SignalColumns(n)} :
           n \in 1..MaxSigmaRows}

\* the rows of the window of row i: rolling(window, center=True) ends
\* (window - 1) // 2 rows after row i
WindowRows(i, n, window) ==
    LET last == i + (window - 1) \div 2
    IN  {j \in 1..n : last - window + 1 <= j /\ j <= last}

NoSigma == [nan |-> TRUE, num |-> 0, den |-> 1]

\* min_periods=1 and ddof=1: a std exists from two observations on
EnoughForStd(nobs) == nobs >= 1 /\ nobs > 1

\* .std() of one window: the sample standard deviation of its cells that
\* are not null
RollingStd(col, rows) ==
    LET obs == {j \in rows : ~col[j].nan}
        nobs == Cardinality(obs)
        total == SumSeq([j \in DOMAIN col |-> IF j \in obs THEN col[j].v ELSE 0])
        squares == SumSeq([j \in DOMAIN col |->
                              IF j \in obs THEN col[j].v * col[j].v ELSE 0])
    IN  IF EnoughForStd(nobs)
        THEN [nan |-> FALSE, num |-> nobs * squares - total * total,
              den |-> nobs * (nobs - 1)]
        ELSE NoSigma

\* Series.bfill(): a null takes the next value that is not null
bfill(col) ==
    [i \in DOMAIN col |->
        IF ~col[i].nan \/ \A j \in i..Len(col) : col[j].nan THEN col[i]
        ELSE col[CHOOSE j \in i..Len(col) :
                    ~col[j].nan /\ \A k \in i..(j - 1) : col[k].nan]]

\* Series.ffill(): a null takes the last value before it that is not null
ffill(col) ==
    [i \in DOMAIN col |->
        IF ~col[i].nan \/ \A j \in 1..i : col[j].nan THEN col[i]
        ELSE col[CHOOSE j \in 1..i :
                    ~col[j].nan /\ \A k \in (j + 1)..i : col[k].nan]]

\* df[col].rolling(window, min_periods=1, center=True).std().bfill().ffill()
SigmaColumn(col, window) ==
    ffill(bfill([i \in DOMAIN col |-> RollingStd(col, WindowRows(i, Len(col), window))]))

\* compute_sigma(df): df with a sigma column for each signal it holds
compute_sigma_result(df, window) ==
    LET present == SigmaSignals \cap DOMAIN df
        names == (DOMAIN df) \cup {SigmaName(c) : c \in present}
    IN  [name \in names |->
            IF name \in DOMAIN df THEN df[name]
            ELSE SigmaColumn(df[CHOOSE c \in present : SigmaName(c) = name], window)]

SigmaCalls ==
    {[fn |-> "compute_sigma", args |-> <<df, window>>] :
        df \in SigmaFrames, window \in 1..MaxWindow}

SigmaInit ==
    AIdle /\ PIdle /\ XIdle /\ call \in SigmaCalls /\ ret = <<>>

compute_sigma ==
    /\ call.fn = "compute_sigma"
    /\ ret = <<>>
    /\ ret' = <<compute_sigma_result(call.args[1], call.args[2])>>
    /\ UNCHANGED <<call, pc, img_height, normalize, file, img, gradient, peaks_neg,
                   props, top, bottom, score, layers, result, called, pvars, xvars>>

SigmaNext == compute_sigma

SpecSigma == SigmaInit /\ [][SigmaNext]_vars

----------------------------------------------------------------------------
(* app.py: the session of the Streamlit application. Every browser event
   runs the script from the top against st.session_state; an action is one
   such run, st.rerun() included. *)

Admin == <<"a", "d", "m", "i", "n">>

Scientist == <<"s", "c", "i", "e", "n", "t", "i", "s", "t">>

\* what is typed in the Usuario field
Usernames ==
    {<<>>, Admin, Admin \o <<"2">>, Scientist, Scientist \o <<"1">>,
     <<"a", "n", "a">>, <<"A", "d", "m", "i", "n">>, <<"a", "d", "m">>}

\* what is typed in the Contrasena field
Passwords == {<<>>, <<"x">>}

\* username.startswith(prefix)
StartsWith(username, prefix) ==
    /\ Len(username) >= Len(prefix)
    /\ SubSeq(username, 1, Len(prefix)) = prefix

\* st.session_state.user_role = None
NoRole == "None"

USER_ROLES ==
    [operator |-> {"view", "upload", "predict"},
     data_scientist |-> {"view", "upload", "predict", "analyze", "export"},
     admin |-> {"view", "upload", "predict", "analyze", "export", "admin"}]

PermissionActions == {"view", "upload", "predict", "analyze", "export", "admin"}

\* the role check_authentication gives a username
RoleOf(username) ==
    IF StartsWith(username, Admin) THEN "admin"
    ELSE IF StartsWith(username, Scientist) THEN "data_scientist"
    ELSE "operator"

\* has_permission(action) evaluated against a session state
has_permission(ss, action) ==
    LET role == IF "user_role" \in DOMAIN ss THEN ss.user_role ELSE NoRole
    IN  IF role = NoRole THEN FALSE
        ELSE IF role \in DOMAIN USER_ROLES THEN action \in USER_ROLES[role]
        ELSE FALSE

\* st.session_state.authenticated, for a session that may not hold the key
IsAuthenticated(ss) == "authenticated" \in DOMAIN ss /\ ss.authenticated

\* the pages of the navigation radio (Analisis Historico, Prediccion en
\* Tiempo Real, Visualizaciones, Exportar Reporte) and the permission each
\* asks for
Pages == <<"Analisis Historico", "Prediccion en Tiempo Real", "Visualizaciones",
           "Exportar Reporte">>

PagePermission ==
    [p \in {Pages[i] : i \in DOMAIN Pages} |->
        CASE p = "Analisis Historico" -> "analyze"
          [] p = "Prediccion en Tiempo Real" -> "predict"
          [] p = "Visualizaciones" -> "view"
          [] p = "Exportar Reporte" -> "export"]

\* what main renders for a page: the page, or the warning of a missing
\* permission
Render(ss, page) == IF has_permission(ss, PagePermission[page]) THEN page ELSE "warning"

\* the event log_audit_event logs (the timestamp is left out)
AuditEvent(ss, event_type) ==
    [event_type |-> event_type,
     user |-> IF "username" \in DOMAIN ss THEN ss.username ELSE <<"unknown">>,
     role |-> IF "user_role" \in DOMAIN ss THEN ss.user_role ELSE "unknown"]

WInit == session_state = <<>> /\ wpc = "new" /\ audit = <<>>

\* the first run of a session: check_authentication initialises the keys,
\* shows the login form and stops
open_app ==
    /\ wpc = "new"
    /\ "authenticated" \notin DOMAIN session_state
    /\ session_state' = [authenticated |-> FALSE, user_role |-> NoRole]
    /\ wpc' = "login_form"
    /\ UNCHANGED <<audit, avars, fvars, pvars, rvars, cvars, bvars, svars, mvars>>

\* Iniciar Sesion pressed with a username and a password: the role is set,
\* the login is logged, and the rerun renders the first page
login ==
    /\ wpc \in {"login_form", "login_error"}
    /\ ~IsAuthenticated(session_state)
    /\ Len(audit) < MaxAudit
    /\ \E username \in Usernames, password \in Passwords :
        /\ username # <<>>
        /\ password # <<>>
        /\ LET ss == [authenticated |-> TRUE, user_role |-> RoleOf(username),
                      username |-> username]
           IN  /\ session_state' = ss
               /\ audit' = Append(audit, AuditEvent(ss, "login"))
               /\ wpc' = Render(ss, Pages[1])
    /\ UNCHANGED <<avars, fvars, pvars, rvars, cvars, bvars, svars, mvars>>

\* Iniciar Sesion pressed with an empty field: Credenciales invalidas
login_rejected ==
    /\ wpc \in {"login_form", "login_error"}
    /\ ~IsAuthenticated(session_state)
    /\ \E username \in Usernames, password \in Passwords :
        username = <<>> \/ password = <<>>
    /\ wpc' = "login_error"
    /\ UNCHANGED <<session_state, audit, avars, fvars, pvars, rvars, cvars, bvars,
                   svars, mvars>>

\* a page chosen in the navigation radio of an authenticated session
select_page ==
    /\ wpc \notin {"off", "new", "login_form", "login_error"}
    /\ IsAuthenticated(session_state)
    /\ \E i \in DOMAIN Pages : wpc' = Render(session_state, Pages[i])
    /\ UNCHANGED <<session_state, audit, avars, fvars, pvars, rvars, cvars, bvars,
                   svars, mvars>>

\* Cerrar Sesion pressed: the logout is logged, authenticated is cleared,
\* and the rerun stops at the login form
logout ==
    /\ wpc \notin {"off", "new", "login_form", "login_error"}
    /\ IsAuthenticated(session_state)
    /\ Len(audit) < MaxAudit
    /\ audit' = Append(audit, AuditEvent(session_state, "logout"))
    /\ session_state' = [session_state EXCEPT !.authenticated = FALSE]
    /\ wpc' = "login_form"
    /\ UNCHANGED <<avars, fvars, pvars, rvars, cvars, bvars, svars, mvars>>

WNext ==
    \/ open_app
    \/ login
    \/ login_rejected
    \/ select_page
    \/ logout

WebInit ==
    AIdle /\ PIdle /\ call = NoCall /\ ret = <<>> /\ RIdle /\ CIdle /\ BIdle /\ SIdle
    /\ MIdle /\ WInit

SpecWeb == WebInit /\ [][WNext]_vars

----------------------------------------------------------------------------
(* Properties of ThermalAnalyzer.process_image *)

FailureTags == {"not_found", "no_interfaces_detected", "processing_error", "no_image"}

\* the keys of a record built by _extract_features
SuccessKeys ==
    DOMAIN _extract_features(<<0>>, [max |-> Rat(0, 1), std |-> Rat(0, 1)], 0, 0, NoLayers, 0)

\* every numeric field of record r is zero
AllZero(r) ==
    /\ \A k \in IntKeys : r[k] = 0
    /\ \A k \in FloatKeys : r[k].n = 0

Returned == pc = "done" /\ "process_image" \in called

\* the pair _select_valid_interfaces returned is held in top, bottom
Selected == "_select_valid_interfaces" \in called

\* C1: a success record (and the pair handed from _select_valid_interfaces to
\* the following steps) satisfies 0 <= top < bottom <= H, for an enumerated
\* pair as for the default pair (H // 3, 2 * H // 3)
C1_PairInsideImage ==
    /\ Selected => 0 <= top /\ top < bottom /\ bottom <= img_height
    /\ result.status = "success" =>
          /\ 0 <= result.thermal_interface_top_px
          /\ result.thermal_interface_top_px < result.thermal_interface_bottom_px
          /\ result.thermal_interface_bottom_px <= img_height

\* C1 witness: a success record whose pair came from the peak enumeration
C1_Witness ==
    /\ result.status = "success"
    /\ score > -10
    /\ result.thermal_interface_top_px = top
    /\ \E i \in DOMAIN peaks_neg : peaks_neg[i] = top

\* a success record carrying the default pair: the enumeration improved nothing
C1_DefaultPairReturned ==
    /\ result.status = "success"
    /\ score = -10
    /\ result.thermal_interface_top_px = img_height \div 3
    /\ result.thermal_interface_bottom_px = (2 * img_height) \div 3

\* C2: in a success record the three thicknesses are non-negative and sum to
\* H; each ratio is thickness / H, is non-negative, and the three sum to 1
C2_LayersPartition ==
    result.status = "success" =>
        LET c == result.thermal_crudo_px
            e == result.thermal_emulsion_px
            w == result.thermal_agua_px
            rc == result.thermal_crudo_ratio
            re == result.thermal_emulsion_ratio
            rw == result.thermal_agua_ratio
        IN  /\ c = result.thermal_interface_top_px
            /\ e = result.thermal_interface_bottom_px - result.thermal_interface_top_px
            /\ w = img_height - result.thermal_interface_bottom_px
            /\ c >= 0 /\ e >= 0 /\ w >= 0
            /\ c + e + w = img_height
            /\ RatEq(rc, Rat(c, img_height))
            /\ RatEq(re, Rat(e, img_height))
            /\ RatEq(rw, Rat(w, img_height))
            /\ rc.n >= 0 /\ re.n >= 0 /\ rw.n >= 0
            /\ rc.d > 0 /\ re.d > 0 /\ rw.d > 0
            /\ rc.n * re.d * rw.d + re.n * rc.d * rw.d + rw.n * rc.d * re.d
                   = rc.d * re.d * rw.d

\* C2 witness: a success record with three non-empty layers
C2_Witness ==
    /\ result.status = "success"
    /\ result.thermal_crudo_px > 0
    /\ result.thermal_emulsion_px > 0
    /\ result.thermal_agua_px > 0

\* a scorer call whose band means are not strictly decreasing
Unordered == call.args[1] <= call.args[2] \/ call.args[2] <= call.args[3]

\* C3: _score_temperature_sequence returns exactly -100 (-1000 tenths)
\* whenever top <= middle or middle <= bottom, whatever the magnitudes
C3_UnorderedRejected ==
    (call.fn = "score" /\ ret # <<>> /\ Unordered) => ret[1] = -1000

\* C3 witness: top = 50, middle = 50, bottom = 10 was scored -100
C3_Witness ==
    /\ call.fn = "score"
    /\ call.args = <<100, 100, 0>>
    /\ ret = <<-1000>>

\* C4: when find_peaks returned fewer than 2 peaks, process_image has returned
\* no_interfaces_detected with every numeric feature 0, and neither pair
\* selection nor layer computation nor feature extraction has run
C4_TooFewPeaksReported ==
    ("find_peaks" \in called /\ Len(peaks_neg) < 2) =>
        /\ pc = "done"
        /\ result.status = "no_interfaces_detected"
        /\ AllZero(result)
        /\ called \cap {"_select_valid_interfaces", "_calculate_layers", "_extract_features"} = {}

\* C4 witness: a uniform-brightness image went through the peak search
C4_Witness ==
    /\ "find_peaks" \in called
    /\ IsUniform(img)
    /\ peaks_neg = <<>>
    /\ result.status = "no_interfaces_detected"

\* C5: every returned record, success or failure, has exactly the keys of a
\* record built by _extract_features; a failure record carries one of the
\* four failure tags and all its numeric fields are zero
C5_FixedShape ==
    result.status # "none" =>
        /\ DOMAIN result = SuccessKeys
        /\ result.status \in FailureTags \cup {"success"}
        /\ result.status # "success" => AllZero(result)

\* C5 witness: a failure record was produced for a row without image
C5_Witness ==
    /\ result.status = "no_image"
    /\ DOMAIN result = SuccessKeys

\* statements of one call still to run, at most
StepsLeft(p) ==
    CASE p = "row" -> 9
      [] p = "entry" -> 8
      [] p = "load" -> 7
      [] p = "preprocess" -> 6
      [] p = "detect" -> 5
      [] p = "select" -> 4
      [] p = "layers" -> 3
      [] p = "features" -> 2
      [] p = "except" -> 1
      [] OTHER -> 0

C7_Original ==
    (Returned /\ file \in {"missing", "corrupt"}) => result.status = "not_found"

\* C7 amended: a missing file gives not_found; a file that exists but cannot
\* be decoded gives processing_error
C7_MissingVersusCorrupt ==
    /\ (Returned /\ file = "missing") => result.status = "not_found"
    /\ (Returned /\ file = "corrupt") => result.status = "processing_error"

\* C7 witness: process_image returned for an undecodable file
C7_Witness ==
    /\ Returned
    /\ file = "corrupt"
    /\ "_load_image" \in called
    /\ result.status = "processing_error"

\* C8: the confidence is exactly 0 for every score <= 0, is non-decreasing in
\* the score for score > 0, and is score / 25 to the nearest hundredth
C8_ConfidenceMonotone ==
    (call.fn = "confidence" /\ ret # <<>>) =>
        LET s1 == call.args[1]
            s2 == call.args[2]
        IN  /\ s1 <= 0 => ret[1] = 0
            /\ (0 < s1 /\ s1 <= s2) => ret[1] <= ret[2]
            /\ s1 > 0 => (10 * ret[1] - 4 * s1 <= 5 /\ 4 * s1 - 10 * ret[1] <= 5)

\* C8 witness: two positive scores with different confidences were compared
C8_Witness ==
    /\ call.fn = "confidence"
    /\ ret # <<>>
    /\ 0 < call.args[1]
    /\ call.args[1] < call.args[2]
    /\ ret[1] < ret[2]

\* C9: in every record produced the confidence lies in [0, 1], and the score
\* _select_valid_interfaces returns never exceeds 25
C9_ConfidenceInUnitInterval ==
    /\ Selected => score <= 250
    /\ result.status # "none" =>
          /\ 0 <= result.thermal_interface_confidence.n
          /\ result.thermal_interface_confidence.d > 0
          /\ result.thermal_interface_confidence.n <= result.thermal_interface_confidence.d

\* C9 witness: a success record with the highest score of the scale (21)
C9_Witness ==
    /\ result.status = "success"
    /\ score = 210
    /\ result.thermal_interface_confidence = Rat(84, 100)

----------------------------------------------------------------------------
(* Properties of RealtimeThermalPredictor *)

\* C10: when no reference data was supplied, or it holds no success/estable
\* row, the reference profile is empty; and with an empty reference profile
\* calculate_reliability_score returns exactly 50.0 for every record
C10_NeutralWithoutReference ==
    /\ stable_rows <= 0 => DOMAIN reference_profiles = {}
    /\ (ppc # "ready" /\ DOMAIN reference_profiles = {}) => reliability = Rat(50, 1)

\* C10 witness: a record with all five weighted features was scored against
\* the empty profile left by reference data without any success/estable row
C10_Witness ==
    /\ ppc = "scored"
    /\ stable_rows = 0
    /\ DOMAIN reference_profiles = {}
    /\ DOMAIN features = KeyVarNames
    /\ \A k \in KeyVarNames : ~features[k].nan
    /\ reliability = Rat(50, 1)

\* the reference std of a feature is exactly 0
ZeroStd(var) == ~reference_profiles[var].std.nan /\ reference_profiles[var].std.sq.n = 0

\* the new value lies less than 0.01 (one hundredth) from the reference mean
NearMean(var) ==
    /\ RatLt(Rat(features[var].v - 1, 1), reference_profiles[var].mean)
    /\ RatLt(reference_profiles[var].mean, Rat(features[var].v + 1, 1))

\* C11: for a weighted feature whose reference std is 0 the sub-score is 100
\* when the new value is within 0.01 of the reference mean (so also when it
\* equals the mean) and 50 otherwise, and it is obtained by the direct
\* comparison: the z-score division is not evaluated
C11_ZeroStdDirect ==
    \A var \in DOMAIN scores :
        ZeroStd(var) =>
            /\ scores[var].branch = "direct"
            /\ scores[var].score = IF NearMean(var) THEN 10000 ELSE 5000

\* C11 witness: against a reference of std 0, one feature equal to the mean
\* scored 100 and another feature 0.01 away from it scored 50
C11_Witness ==
    /\ ppc = "scored"
    /\ \E a, b \in DOMAIN scores :
        /\ ZeroStd(a) /\ ZeroStd(b)
        /\ RatEq(reference_profiles[a].mean, Rat(features[a].v, 1))
        /\ scores[a].score = 10000
        /\ RatEq(reference_profiles[b].mean, Rat(features[b].v - 1, 1))
        /\ scores[b].score = 5000

\* the weights the specification gives to the five features, in hundredths
ClaimWeights ==
    [thermal_gradient_max |-> 25, thermal_interface_confidence |-> 30,
     thermal_emulsion_ratio |-> 20, thermal_agua_ratio |-> 15,
     thermal_crudo_ratio |-> 10]

\* the weighted features present and non-null in the record and present in
\* the reference
Available ==
    {var \in DOMAIN ClaimWeights :
        /\ var \in DOMAIN features
        /\ var \in DOMAIN reference_profiles
        /\ ~features[var].nan}

RECURSIVE SumFn(_, _)
SumFn(fn, S) ==
    IF S = {} THEN 0
    ELSE LET x == CHOOSE y \in S : TRUE IN fn[x] + SumFn(fn, S \ {x})

\* C12: with a non-empty reference the reliability score is the average of
\* the sub-scores of exactly the available features, weighted 0.25, 0.30,
\* 0.20, 0.15, 0.10 and renormalised over them; it is exactly 50 when no
\* feature is available; it always lies in [0, 100]
C12_WeightedAverage ==
    (ppc \in {"scored", "classified"} /\ DOMAIN reference_profiles # {}) =>
        /\ DOMAIN scores = Available
        /\ Available = {} => reliability = Rat(50, 1)
        /\ Available # {} =>
              reliability =
                RatNorm(SumFn([var \in Available |->
                                  ClaimWeights[var] * scores[var].score], Available),
                        100 * SumFn([var \in Available |-> ClaimWeights[var]], Available))
        /\ RatLe(Rat(0, 1), reliability)
        /\ RatLe(reliability, Rat(100, 1))

\* C12 witness: three of the five features were available, with different
\* sub-scores, one of the others being null and one missing from the record
C12_Witness ==
    /\ ppc = "scored"
    /\ Cardinality(Available) = 3
    /\ \E a, b \in Available : scores[a].score # scores[b].score
    /\ \E var \in DOMAIN features : features[var].nan
    /\ \E var \in DOMAIN ClaimWeights : var \notin DOMAIN features
    /\ reliability # Rat(50, 1)

\* C13: classify_reliability_category gives alta iff score >= 80, media iff
\* 60 <= score < 80 and baja iff score < 60
C13_CategoryBands ==
    ppc = "classified" =>
        /\ category \in {"alta", "media", "baja"}
        /\ category = "alta" <=> RatLe(Rat(80, 1), reliability)
        /\ category = "media" <=>
              (RatLe(Rat(60, 1), reliability) /\ RatLt(reliability, Rat(80, 1)))
        /\ category = "baja" <=> RatLt(reliability, Rat(60, 1))

\* C13 witness: a score of exactly 80 was classified alta
C13_Witness ==
    /\ ppc = "classified"
    /\ reliability = Rat(80, 1)
    /\ category = "alta"

\* a score of exactly 60 was classified media
C13_SixtyIsMedia ==
    /\ ppc = "classified"
    /\ reliability = Rat(60, 1)
    /\ category = "media"

----------------------------------------------------------------------------
(* Properties of RealtimeThermalPredictor.predict_new_image *)

\* predict_new_image has returned after process_image_fast gave it a record
ReturnedAfterExtraction == ppc = "returned" /\ "process_image_fast" \in invoked

\* C14: whenever the extracted record's status is not success, the result of
\* predict_new_image has reliability_score 0.0 and reliability_category baja,
\* and calculate_reliability_score is not invoked (the result is 0 and not
\* the neutral 50, also with an empty reference)
C14_FailedExtractionShortCircuits ==
    /\ (ppc \in {"extracted", "returned"} /\ "status" \in DOMAIN features
          /\ features.status # "success") =>
            "calculate_reliability_score" \notin invoked
    /\ (ReturnedAfterExtraction /\ features.status # "success") =>
            /\ prediction.reliability_score = Rat(0, 1)
            /\ prediction.reliability_category = "baja"
            /\ prediction.status = features.status
            /\ scores = <<>>

\* C14 witness: against an empty reference an image without two gradient
\* peaks came back with score 0, baja
C14_Witness ==
    /\ ReturnedAfterExtraction
    /\ DOMAIN reference_profiles = {}
    /\ features.status = "no_interfaces_detected"
    /\ prediction.reliability_score = Rat(0, 1)
    /\ prediction.reliability_category = "baja"
    /\ "calculate_reliability_score" \notin invoked

\* the keys of a FeatureRecord: every feature and the status
FeatureRecordKeys == DOMAIN _default_output("success")

TimingKeys == {"processing_time", "total_processing_time", "timestamp"}

\* C15, as stated: every result predict_new_image returns, on every path, is
\* a FeatureRecord (all feature keys and a status) extended with
\* reliability_score, reliability_category and a timing field
C15_Original ==
    ppc = "returned" =>
        /\ FeatureRecordKeys \subseteq DOMAIN prediction
        /\ {"reliability_score", "reliability_category"} \subseteq DOMAIN prediction
        /\ DOMAIN prediction \cap TimingKeys # {}

\* the result for a path that does not exist holds three keys only
C15_MissingFileResult ==
    /\ ppc = "returned"
    /\ file = "missing"
    /\ DOMAIN prediction = {"error", "reliability_score", "reliability_category"}

\* on the two paths that go through process_image_fast the result has the
\* full shape
C15_ShapeAfterExtraction ==
    ReturnedAfterExtraction =>
        /\ FeatureRecordKeys \subseteq DOMAIN prediction
        /\ {"reliability_score", "reliability_category", "processing_time",
             "timestamp"} \subseteq DOMAIN prediction
        /\ prediction.status = "success" <=> "total_processing_time" \in DOMAIN prediction

\* C16: once the predictor is constructed no scoring operation writes
\* reference_profiles, and under every interleaving of concurrent scoring
\* calls on the same predictor each call returns the score and the category
\* it returns when run alone
C16_ConcurrentScoringIsolated ==
    /\ [][reference_profiles' = reference_profiles]_vars
    /\ [](calls # <<>> =>
            \A t \in DOMAIN calls.thread :
                LET c == calls.thread[t]
                IN  /\ c.pos \in {"scored", "classified"} =>
                        c.ret = calculate_reliability_score(reference_profiles, c.features)
                    /\ c.pos = "classified" =>
                        c.category = classify_reliability_category(
                            calculate_reliability_score(reference_profiles, c.features)))

\* C16 witness: two calls with different records were inside the loop at the
\* same time, each with sub-scores collected, and the first of them went on
\* to return a score that is not the neutral default
C16_Witness ==
    /\ calls # <<>>
    /\ calls.thread[1].pos = "classified"
    /\ calls.thread[1].ret # Rat(50, 1)
    /\ calls.thread[2].pos = "loop"
    /\ calls.thread[1].features # calls.thread[2].features
    /\ calls.frame[2].i = Len(KeyVars)
    /\ Len(calls.frame[2].entries) = Len(KeyVars) - 1

\* two calls are inside the loop at the same time
C16_BothInLoop ==
    /\ calls # <<>>
    /\ calls.thread[1].pos = "loop" /\ calls.frame[1].i = 3
    /\ calls.thread[2].pos = "loop" /\ calls.frame[2].i = 2
    /\ calls.thread[1].features # calls.thread[2].features

----------------------------------------------------------------------------
(* Properties of ReliabilityAnalyzer.classify_batches *)

\* classify_batches has run on a DataFrame with at least one sigma column
Classified == batch_df # <<>> /\ batch_df.classified /\ "sigma_combined" \in batch_df.columns

\* the sigma columns of the input in which every row holds the same value
ZeroVarianceColumns ==
    {col \in batch_df.valid_sigma_cols :
        \A i, j \in DOMAIN batch_df.rows : batch_df.rows[i][col] = batch_df.rows[j][col]}

\* the batch_type column classify_batches gives the same rows when the
\* columns cols are left out of the DataFrame
TypesWithout(cols) ==
    LET d == [columns |-> batch_df.valid_sigma_cols \ cols,
              rows |-> [k \in DOMAIN batch_df.rows |->
                          [col \in batch_df.valid_sigma_cols \ cols |->
                              batch_df.rows[k][col]]],
              classified |-> FALSE]
        out == classify_batches_result(d, sigma_threshold)
    IN  [k \in DOMAIN batch_df.rows |-> out.rows[k].batch_type]

\* C17, as stated: a sigma column with zero variance contributes exactly 0
\* to the normalised value of every row, and every row gets a batch_type of
\* estable or turbulento that the remaining columns determine
C17_Original ==
    Classified =>
        /\ \A col \in ZeroVarianceColumns : \A k \in DOMAIN batch_df.rows :
                batch_df.sigma_normalized[k][col].c = 0
        /\ \A k \in DOMAIN batch_df.rows :
                batch_df.rows[k].batch_type \in {"estable", "turbulento"}
        /\ (ZeroVarianceColumns # {} /\ ZeroVarianceColumns # batch_df.valid_sigma_cols) =>
                \A k \in DOMAIN batch_df.rows :
                    batch_df.rows[k].batch_type = TypesWithout(ZeroVarianceColumns)[k]

\* three rows whose sigma_Caudal is 0.1 throughout: each row's normalised
\* sigma_Caudal is -1.0, and with the threshold 0.0 a row is labelled
\* estable that sigma_Nivel TK % alone makes turbulento
C17_ResidueFlipsLabel ==
    /\ Classified
    /\ sigma_threshold = "0.0"
    /\ Len(batch_df.rows) = 3
    /\ batch_df.valid_sigma_cols = {"sigma_Caudal", "sigma_Nivel TK %"}
    /\ \A k \in 1..3 : batch_df.rows[k]["sigma_Caudal"] = 1
    /\ \A k \in 1..3 : batch_df.sigma_normalized[k]["sigma_Caudal"].c = -1
    /\ \E k \in 1..3 :
        /\ batch_df.rows[k].batch_type = "estable"
        /\ TypesWithout({"sigma_Caudal"})[k] = "turbulento"

\* with exactly representable values (0.0 throughout) the column does
\* contribute 0
C17_ExactZeroColumn ==
    /\ Classified
    /\ Len(batch_df.rows) = 3
    /\ batch_df.valid_sigma_cols = {"sigma_Caudal", "sigma_Nivel TK %"}
    /\ \A k \in 1..3 : batch_df.rows[k]["sigma_Caudal"] = 0
    /\ \A k \in 1..3 : batch_df.sigma_normalized[k]["sigma_Caudal"].c = 0
    /\ \E k \in 1..3 : batch_df.sigma_normalized[k]["sigma_Nivel TK %"].c # 0

\* the sign of sigma_combined of row k minus the threshold
AgainstThreshold(k) ==
    SignSum([col \in batch_df.valid_sigma_cols |->
                2 * batch_df.rows[k].sigma_combined[col] - batch_df.threshold[col]],
            batch_df.rad, batch_df.valid_sigma_cols)

EstableRows == {k \in DOMAIN batch_df.rows : batch_df.rows[k].batch_type = "estable"}

\* C18: with no sigma_threshold configured the threshold is the median of
\* sigma_combined (at most half of the rows lie below it and at most half
\* above it; it is the middle value when N is odd and the mean of the two
\* middle values when N is even), a row is estable iff its sigma_combined is
\* <= the threshold and turbulento otherwise, and so the number of estable
\* rows is the number of rows with sigma_combined <= median(sigma_combined)
C18_MedianThreshold ==
    (Classified /\ sigma_threshold = "None") =>
        LET N == Len(batch_df.rows)
            below == {k \in 1..N : AgainstThreshold(k) < 0}
            above == {k \in 1..N : AgainstThreshold(k) > 0}
            at == {k \in 1..N : AgainstThreshold(k) = 0}
        IN  /\ 2 * Cardinality(below) <= N
            /\ 2 * Cardinality(above) <= N
            /\ N % 2 = 1 => at # {}
            /\ (N % 2 = 0 /\ at = {}) => Cardinality(below) = Cardinality(above)
            /\ \A k \in 1..N :
                    batch_df.rows[k].batch_type =
                        IF k \in below \cup at THEN "estable" ELSE "turbulento"
            /\ Cardinality(EstableRows) = Cardinality(below \cup at)

\* C18 witness: three rows of two varying sigma columns, the median row and
\* the row below it estable, the row above it turbulento
C18_Witness ==
    /\ Classified
    /\ sigma_threshold = "None"
    /\ Len(batch_df.rows) = 3
    /\ ZeroVarianceColumns = {}
    /\ Cardinality(batch_df.valid_sigma_cols) = 2
    /\ Cardinality(EstableRows) = 2
    /\ Cardinality({k \in 1..3 : AgainstThreshold(k) < 0}) = 1
    /\ Cardinality({k \in 1..3 : AgainstThreshold(k) = 0}) = 1

----------------------------------------------------------------------------
(* Properties of the statistical steps of ReliabilityAnalyzer *)

\* the rows that are valid (status success, batch_type estable or
\* turbulento), of batch type bt when bt is not "any", and hold a value in
\* each of the columns cols
Observations(cols, bt) ==
    LET kinds == {k \in DOMAIN RowKinds :
                    /\ RowKinds[k].status = "success"
                    /\ RowKinds[k].batch_type \in {"estable", "turbulento"}
                    /\ bt # "any" => RowKinds[k].batch_type = bt
                    /\ RowKinds[k].nulls \cap cols = {}}
    IN  SumFn([k \in kinds |-> history.counts[k]], kinds)

\* the ANOVA entries of the result (none when the result is the
\* insufficient_data record)
AnovaEntries ==
    IF "anova_results" \in DOMAIN anova THEN anova.anova_results ELSE <<>>

\* the compared features with at least 3 observations in each group
EnoughInBothGroups ==
    {var \in {"thermal_gradient_max", "thermal_interface_confidence",
               "thermal_emulsion_ratio", "thermal_agua_ratio"} \cap history.columns :
        Observations({var}, "estable") >= 3 /\ Observations({var}, "turbulento") >= 3}

C19_NotValidated ==
    /\ anova # <<>>
    /\ ~anova.hypothesis_validated
    /\ DOMAIN AnovaEntries = {"thermal_gradient_max", "thermal_interface_confidence"}

\* C20: a statistical step that lacks data is skipped and leaves no entry:
\* a (feature, sigma) pair with < 3 paired observations has no correlation
\* entry, a feature with < 3 samples in either group has no ANOVA entry, and
\* with < 10 valid rows there is no correlation and no ANOVA entry at all;
\* an entry that exists carries the counts of the data it was computed from
C20_SkippedNotFabricated ==
    /\ correlations # <<>> =>
          /\ \A tv \in DOMAIN correlations.table :
                \A sv \in DOMAIN correlations.table[tv] :
                    /\ Observations({tv, sv}, "any") >= 3
                    /\ correlations.table[tv][sv].n_samples = Observations({tv, sv}, "any")
          /\ Observations({}, "any") < 10 => correlations.table = <<>>
    /\ anova # <<>> =>
          /\ \A var \in DOMAIN AnovaEntries :
                /\ Observations({var}, "estable") >= 3
                /\ Observations({var}, "turbulento") >= 3
                /\ AnovaEntries[var].n_stable = Observations({var}, "estable")
                /\ AnovaEntries[var].n_turbulent = Observations({var}, "turbulento")
          /\ Observations({}, "any") < 10 =>
                (AnovaEntries = <<>> /\ "anova_results" \notin DOMAIN anova)

\* C20 witness: among 12 valid rows thermal_gradient_max is null in all but
\* two, so its pair and its ANOVA are skipped and have no entry, while
\* thermal_interface_confidence has both
C20_Witness ==
    /\ anova # <<>>
    /\ Observations({}, "any") = 12
    /\ Observations({"thermal_gradient_max", "sigma_Caudal"}, "any") = 2
    /\ "thermal_gradient_max" \in DOMAIN correlations.table
    /\ DOMAIN correlations.table["thermal_gradient_max"] = {}
    /\ DOMAIN correlations.table["thermal_interface_confidence"] = {"sigma_Caudal"}
    /\ DOMAIN AnovaEntries = {"thermal_interface_confidence"}

\* fewer than 10 valid rows: an empty correlation table and the
\* insufficient_data record
C20_TooFewRows ==
    /\ anova # <<>>
    /\ Observations({}, "any") = 9
    /\ correlations.table = <<>>
    /\ anova = [hypothesis_validated |-> FALSE, error |-> "insufficient_data"]

\* C21: in every row of the comparative report correlacion_sigma is absent
\* or >= 0, and generating the report leaves the correlation table, with
\* its negative values, as it was
C21_NoNegativeInReport ==
    /\ [](report # <<>> =>
            \A metric \in DOMAIN report.rows :
                \/ report.rows[metric].correlacion_sigma.null
                \/ report.rows[metric].correlacion_sigma.v >= 0)
    /\ [][report' # report => correlations' = correlations]_vars

\* C21 witness: the table holds -0.5 for thermal_interface_confidence
\* against sigma_Caudal, the only sigma column, and the report row of that
\* feature has no correlacion_sigma
C21_Witness ==
    /\ report # <<>>
    /\ "thermal_interface_confidence" \in DOMAIN report.rows
    /\ "thermal_interface_confidence" \in DOMAIN correlations.table
    /\ DOMAIN correlations.table["thermal_interface_confidence"] = {"sigma_Caudal"}
    /\ correlations.table["thermal_interface_confidence"]["sigma_Caudal"].correlation = Val(-50)
    /\ report.rows["thermal_interface_confidence"].correlacion_sigma = None

\* a negative correlation with sigma_Caudal is passed over for the
\* correlation with sigma_combined
C21_NextSigmaKey ==
    /\ report # <<>>
    /\ "thermal_interface_confidence" \in DOMAIN report.rows
    /\ "thermal_interface_confidence" \in DOMAIN correlations.table
    /\ DOMAIN correlations.table["thermal_interface_confidence"] = {"sigma_Caudal", "sigma_combined"}
    /\ correlations.table["thermal_interface_confidence"]["sigma_Caudal"].correlation = Val(-50)
    /\ report.rows["thermal_interface_confidence"].correlacion_sigma = Some(50)

\* the entries of the correlation table, as <<thermal feature, sigma column>>
RetainedPairs ==
    IF correlations = <<>> THEN {}
    ELSE {pair \in (DOMAIN correlations.table) \X SigmaVars(history.columns) :
            pair[2] \in DOMAIN correlations.table[pair[1]]}

RangeTerm(x, lo, hi) ==
    IF 2 * lo <= x /\ x <= 2 * hi THEN 50
    ELSE IF x > 2 * hi THEN 25 ELSE -25

\* 3 * [a - b > 10] in tenths, a and b in halves
BonusTerm(a, b) == IF a - b > 20 THEN 30 ELSE 0

\* C25: for band means with top > middle > bottom the score equals
\* r(top, 180..255) + r(middle, 130..180) + r(bottom, 70..130)
\* + 3 * [top - middle > 10] + 3 * [middle - bottom > 10], r being 5 inside
\* the range (bounds included), 2.5 above it and -2.5 below it
C25_ScoreFormula ==
    (call.fn = "score" /\ ret # <<>>
     /\ call.args[1] > call.args[2] /\ call.args[2] > call.args[3]) =>
        ret[1] = RangeTerm(call.args[1], 180, 255) + RangeTerm(call.args[2], 130, 180)
                 + RangeTerm(call.args[3], 70, 130)
                 + BonusTerm(call.args[1], call.args[2])
                 + BonusTerm(call.args[2], call.args[3])

\* C25 witness: top = 190, middle = 180, bottom = 130, both on a range bound
\* and top exactly 10 above middle, scored 5 + 5 + 5 + 0 + 3 = 18
C25_Witness ==
    /\ call.fn = "score"
    /\ call.args = <<380, 360, 260>>
    /\ ret = <<180>>

\* top = 255.5 above its range, bottom = 69.5 below its range:
\* 2.5 + 5 - 2.5 + 3 + 3 = 11
C25_OutsideRanges ==
    /\ call.fn = "score"
    /\ call.args = <<511, 340, 139>>
    /\ ret = <<110>>

----------------------------------------------------------------------------
(* Properties of ThermalAnalyzer._select_valid_interfaces *)

\* the pairs (t, b) with t < b among the most prominent peaks of the call
CandidatePairs ==
    LET tp == TopPeaks(call.args[2], call.args[3])
        cand == {tp[k] : k \in DOMAIN tp}
    IN  {pair \in cand \X cand : pair[1] < pair[2]}

\* the score (tenths) of the bands the pair cuts the image of the call into
PairScore(pair) ==
    LET regions == _get_regions(call.args[1], pair[1], pair[2])
    IN  _score_temperature_sequence(RegionMean(regions[1]), RegionMean(regions[2]),
                                    RegionMean(regions[3]))

\* C23 as stated: whenever _select_valid_interfaces returns a pair it
\* enumerated, that pair is one of the pairs (t, b) with t < b among the
\* most prominent peaks and no such pair has a higher score
C23_Original ==
    (call.fn = "select" /\ ret # <<>> /\ ret[1].score > -10) =>
        /\ <<ret[1].t, ret[1].b>> \in CandidatePairs
        /\ ret[1].score = PairScore(<<ret[1].t, ret[1].b>>)
        /\ \A pair \in CandidatePairs : PairScore(pair) <= ret[1].score

\* the pair returned was enumerated and scores 6.0, while the pair of the
\* two upper peaks, the lower of which is the more prominent, scores 18.5
\* and was never scored
C23_BetterPairSkipped ==
    /\ call.fn = "select"
    /\ ret # <<>>
    /\ call.args[2] = <<SelectH - 2 * PeakDistance - 2, SelectH - PeakDistance - 2, SelectH - 2>>
    /\ call.args[3] = <<1, 3, 2>>
    /\ ret[1].score = 60
    /\ <<ret[1].t, ret[1].b>> = <<SelectH - PeakDistance - 2, SelectH - 2>>
    /\ PairScore(<<SelectH - 2 * PeakDistance - 2, SelectH - PeakDistance - 2>>) = 185

\* the pair process_image selected consists of two detected peaks
PairOfDetectedPeaks ==
    /\ \E i \in DOMAIN peaks_neg : peaks_neg[i] = top
    /\ \E i \in DOMAIN peaks_neg : peaks_neg[i] = bottom

\* the band means of the selected pair satisfy top > middle > bottom
BandsOrdered ==
    LET regions == _get_regions(img, top, bottom)
    IN  /\ RatLt(RegionMean(regions[2]), RegionMean(regions[1]))
        /\ RatLt(RegionMean(regions[3]), RegionMean(regions[2]))

\* C24 as stated: every record with status success reports a pair of
\* detected peaks that was found valid; the default pair (H // 3, 2 * H // 3)
\* is never returned once two peaks exist
C24_Original ==
    (pc = "done" /\ result.status = "success") =>
        /\ Len(peaks_neg) >= 2
        /\ result.thermal_interface_top_px = top
        /\ result.thermal_interface_bottom_px = bottom
        /\ PairOfDetectedPeaks
        /\ BandsOrdered
        /\ score > -10

\* two peaks were detected, no pair reached a score above -1, and the
\* record has status success with the default pair and confidence 0
C24_SuccessWithDefaultPair ==
    /\ pc = "done"
    /\ result.status = "success"
    /\ Len(peaks_neg) = 2
    /\ score = -10
    /\ result.thermal_interface_top_px = img_height \div 3
    /\ result.thermal_interface_bottom_px = (2 * img_height) \div 3
    /\ ~PairOfDetectedPeaks
    /\ result.thermal_interface_confidence.n = 0

----------------------------------------------------------------------------
(* Properties of main *)

\* C22: after the batch loop has run over a dataset of N rows exactly N
\* feature records have been collected, the i-th appended by the iteration
\* of the i-th row, whatever statuses and exceptions occurred; the output
\* dataset has one row per input row, in order, with that row's features
C22_OneRecordPerRow ==
    /\ pc \in {"loop", "saved"} =>
          /\ Len(thermal_features) = row_idx
          /\ \A i \in 1..Len(thermal_features) : thermal_features[i].idx = i
    /\ pc = "saved" =>
          /\ Len(thermal_features) = Len(dataset)
          /\ DOMAIN df_final.rows = 1..Len(dataset)
          /\ \A i \in 1..Len(dataset) :
                /\ df_final.rows[i].data = dataset[i]
                /\ df_final.rows[i].features = thermal_features[i].features

\* C22 witness: a dataset of two rows, the first without an image and the
\* second one whose call raised out of process_image, has been combined
C22_Witness ==
    /\ pc = "saved"
    /\ Len(dataset) = 2
    /\ dataset[1] = "no_path"
    /\ df_final.rows[1].features.status = "no_image"
    /\ df_final.rows[2].features.status = "processing_error"
    /\ "main.except" \in called

\* a success and a failure status side by side in the output
C22_MixedStatuses ==
    /\ pc = "saved"
    /\ Len(dataset) = 2
    /\ df_final.rows[1].features.status = "success"
    /\ dataset[2] = "corrupt"
    /\ df_final.rows[2].features.status = "processing_error"

\* C28 as stated: a collected record has status no_image exactly when its
\* row has no image associated, and not_found when the associated file is
\* missing on disk
C28_Original ==
    \A i \in 1..Len(thermal_features) :
        /\ thermal_features[i].features.status = "no_image" <=> dataset[i] = "no_path"
        /\ dataset[i] = "missing" => thermal_features[i].features.status = "not_found"

\* the record of a row whose imagen_path names a file that is not on disk
\* has status no_image, and process_image was not called for it
C28_MissingIsNoImage ==
    /\ pc = "loop"
    /\ row_idx >= 1
    /\ dataset[row_idx] = "missing"
    /\ thermal_features[row_idx].features.status = "no_image"
    /\ "process_image" \notin called

----------------------------------------------------------------------------
(* Properties of ReliabilityAnalyzer.compute_sigma *)

\* C26 as stated: after compute_sigma every row has a sigma value that is
\* not null, for each configured signal column the dataset holds, whatever
\* the number of rows (>= 1) and the window (>= 1)
C26_Original ==
    (call.fn = "compute_sigma" /\ ret # <<>>) =>
        \A c \in {"Caudal", "Nivel TK %"} \cap DOMAIN call.args[1] :
            /\ SigmaName(c) \in DOMAIN ret[1]
            /\ \A i \in DOMAIN ret[1][SigmaName(c)] : ~ret[1][SigmaName(c)][i].nan

\* a dataset of one row, Caudal = 3, under the default window 5: the only
\* window holds one observation and sigma_Caudal is null
C26_SingleRowIsNull ==
    /\ call.fn = "compute_sigma"
    /\ ret # <<>>
    /\ call.args[1] = [c \in {"Caudal"} |-> <<Val(3)>>]
    /\ call.args[2] = 5
    /\ ret[1]["sigma_Caudal"] = <<NoSigma>>

\* window 1 on three rows without a null: every sigma is null
C26_WindowOneIsNull ==
    /\ call.fn = "compute_sigma"
    /\ ret # <<>>
    /\ call.args[1] = [c \in {"Caudal"} |-> <<Val(0), Val(1), Val(3)>>]
    /\ call.args[2] = 1
    /\ \A i \in 1..3 : ret[1]["sigma_Caudal"][i].nan

\* the edge null of window 2 is filled from the row below
C26_EdgeFilled ==
    /\ call.fn = "compute_sigma"
    /\ ret # <<>>
    /\ call.args[1] = [c \in {"Caudal"} |-> <<Val(0), Val(1), Val(3)>>]
    /\ call.args[2] = 2
    /\ ret[1]["sigma_Caudal"] =
           <<[nan |-> FALSE, num |-> 1, den |-> 2], [nan |-> FALSE, num |-> 1, den |-> 2],
             [nan |-> FALSE, num |-> 4, den |-> 2]>>

----------------------------------------------------------------------------
(* Properties of RealtimeThermalPredictor._build_reference_profiles *)

\* C29 as stated: every feature stored in a reference profile built from at
\* least one success/estable row has a defined, non-negative std, and the
\* sub-score of a scored feature depends on the new value: some other value
\* between 0.00 and 1.00 would have scored differently
C29_Original ==
    /\ stable_rows >= 1 =>
           \A var \in DOMAIN reference_profiles :
               /\ ~reference_profiles[var].std.nan
               /\ reference_profiles[var].std.sq.n >= 0
    /\ (ppc # "ready" /\ stable_rows >= 1) =>
           \A var \in DOMAIN scores :
               \E other \in 0..100 :
                   SubScore(other, reference_profiles[var]) # scores[var].score

\* a profile built from exactly one success/estable row stores a null std
\* (the sample standard deviation of one value), and a new value 0.25 away
\* from the reference mean 0.75 gets the sub-score 100 by the z-score rule
C29_SingleRowStdIsNull ==
    /\ ppc = "scored"
    /\ stable_rows = 1
    /\ "thermal_interface_confidence" \in DOMAIN reference_profiles
    /\ reference_profiles["thermal_interface_confidence"].std.nan
    /\ reference_profiles["thermal_interface_confidence"].mean = Rat(75, 1)
    /\ "thermal_interface_confidence" \in DOMAIN scores
    /\ features["thermal_interface_confidence"] = Val(50)
    /\ scores["thermal_interface_confidence"].branch = "zscore"
    /\ scores["thermal_interface_confidence"].score = 10000

\* with two stable rows the std is defined and the same new value scores
\* below 100
C29_TwoRowsStdDefined ==
    /\ ppc = "scored"
    /\ stable_rows = 2
    /\ "thermal_interface_confidence" \in DOMAIN reference_profiles
    /\ ~reference_profiles["thermal_interface_confidence"].std.nan
    /\ reference_profiles["thermal_interface_confidence"].std.sq.n > 0
    /\ "thermal_interface_confidence" \in DOMAIN scores
    /\ features["thermal_interface_confidence"] = Val(50)
    /\ scores["thermal_interface_confidence"].score < 10000

----------------------------------------------------------------------------
(* Properties of the web session *)

\* C30 as stated: whenever the session is not authenticated,
\* has_permission(action) is false for every action, in every reachable
\* state of the session, a logout that follows a login included
C30_Original ==
    ~IsAuthenticated(session_state) =>
        \A action \in PermissionActions : ~has_permission(session_state, action)

\* after a login as admin and the logout that follows it the session is not
\* authenticated and shows the login form, and has_permission is true for
\* every action: the logout leaves user_role in the session
C30_PermissionAfterLogout ==
    /\ wpc = "login_form"
    /\ ~IsAuthenticated(session_state)
    /\ Len(audit) = 2
    /\ audit[1].event_type = "login"
    /\ audit[2].event_type = "logout"
    /\ session_state.user_role = "admin"
    /\ \A action \in PermissionActions : has_permission(session_state, action)

\* before any login the session holds no role and no action is permitted
C30_NoPermissionBeforeLogin ==
    /\ wpc = "login_error"
    /\ audit = <<>>
    /\ ~IsAuthenticated(session_state)
    /\ \A action \in PermissionActions : ~has_permission(session_state, action)

=============================================================================
